---- MODULE Spec2Model ----
(***************************************************************************)
(* A model of the Fantasy_BBall analysis pipeline:                         *)
(*   - MatchupScheduler (matchup_scheduler.py): week resolution cascade,   *)
(*     Sunday look-ahead, matchup fetch with fallback;                     *)
(*   - AIAnalyzer.analyze_with_api (ai_analyzer.py): one analysis run;     *)
(*   - PlayerEvaluator (player_evaluator.py): hard filters and ranking.    *)
(*                                                                         *)
(* Conventions.  A Python Optional is a set with at most one element:      *)
(* None is {} and a present value v is {v}.  Time is counted in minutes    *)
(* since 2025-10-21 00:00 (the scheduler's season_start); an instant t is  *)
(* that count on the UTC clock, and a datetime carries the count on its    *)
(* own wall clock plus its tzinfo (a fixed offset in hours, or none).      *)
(* Writes to the local data/ directory are taken to succeed.  Payloads of  *)
(* the platform are either well formed or one of the listed failures.      *)
(***************************************************************************)
EXTENDS Integers, Sequences, FiniteSets, TLC

VARIABLES
    tzConf,      \* MatchupScheduler.timezone, hours east of UTC
    tzSrv,       \* the zone of the server's local clock, hours east of UTC
    weekCache,   \* MatchupScheduler._cache["current_week_<team_key>"], Optional
    spc,         \* "idle", or "called" right after a scheduler call
    call,        \* the arguments and the platform's answers of the last call
    ret,         \* what the last call returned and what it requested
    client,      \* AIAnalyzer.client is set (is_api_available)
    fetchers,    \* AIAnalyzer.__init__ built the data fetchers (auth, roster_analyzer, ...)
    playersCache,\* util.cache["available_players_<league_id>"] while fresh, Optional
    disk,        \* data/: the snapshots, the prompt file, the recommendation file
    apc,         \* position in analyze_with_api
    run,         \* its locals: my_roster, available_players, target_week, matchup_data, prompt
    step,        \* the last step: the platform's answers and what the step produced
    failed,      \* the parts of the run that were unavailable so far
    llmCalls,    \* the number of client.messages.create calls
    outcome,     \* whether analyze_with_api is running, returned (and what) or raised
    pending,     \* the names the platform showed on today's roster and not on tomorrow's
    players,     \* PlayerEvaluator.filter_and_rank: the players argument
    limit,       \* its limit argument
    ranked,      \* the list it returned
    epc,         \* "input" before the call, "ranked" after it
    gm,          \* a calculate_games_multiplier call: its arguments and its result
    cmp,         \* a compare_teams_with_live_stats call: its arguments and what it returned
    gaps,        \* a _calculate_category_gaps call: its arguments and what it returned
    oa,          \* an analyze_matchup call: its arguments, the platform's answers and what it returned
    sc,          \* SimpleCache: the clock, the cache files, the latest set per key, the last operation
    ya,          \* YahooAuth under construction: files, in-memory token, session header, requests made
    rt,          \* retry_on_failure wrapper: loop position, invocations, sleeps, outcome
    rl,          \* RateLimiter: the clock, the recorded call times, the times calls were let through
    pf,          \* PlayerFetcher.get_all_available_players: loop position, pages received, players collected
    gs,          \* a decorated _get_games_per_team call: the feed's answers per attempt and what came back
    cl,          \* analyze_matchup lines 103-106: the team values, the gaps and the classification
    en,          \* one run: today's roster, the pending drops, the roster handed to analyze_matchup and its result
    sf           \* a _find_rare_players call: the players and the list it returned

svars == <<tzConf, tzSrv, weekCache, spc, call, ret>>
avars == <<client, fetchers, playersCache, disk, apc, run, step, failed, llmCalls, outcome,
          pending>>
evars == <<players, limit, ranked, epc>>
uvars == <<gm, cmp, gaps, oa, sc, ya, rt, rl, pf, gs, cl, en, sf>>
vars == <<svars, avars, evars, uvars>>

-----------------------------------------------------------------------------
(* Optional values *)

None == {}
Some(v) == {v}
The(o) == CHOOSE v \in o : TRUE

Range(s) == {s[i] : i \in 1..Len(s)}

Max2(a, b) == IF a >= b THEN a ELSE b
Min2(a, b) == IF a <= b THEN a ELSE b

-----------------------------------------------------------------------------
(* datetime *)

DayMin == 24 * 60

\* datetime.now(tz): the instant t on the wall clock of zone off, tz-aware
NowIn(t, off) == [wall |-> t + 60 * off, tz |-> Some(off)]

\* datetime.now(): the server's wall clock, naive
NowNaive(t, srv) == [wall |-> t + 60 * srv, tz |-> None]

\* date.weekday(): Monday = 0 ... Sunday = 6; 2025-10-21 is a Tuesday
Weekday(d) == (1 + (d.wall \div DayMin)) % 7

\* date.hour
HourOf(d) == (d.wall % DayMin) \div 60

\* date.replace(tzinfo=tz): the wall clock is kept
ReplaceTz(d, off) == [d EXCEPT !.tz = Some(off)]

-----------------------------------------------------------------------------
(* MatchupScheduler *)

MyTeam == "466.l.39285.t.2"
OppTeam == "466.l.39285.t.7"
OtherTeam == "466.l.39285.t.9"

is_sunday(date, t, conf) ==
    LET d == IF date = None THEN NowIn(t, conf) ELSE The(date)
    IN  Weekday(d) = 6

should_look_ahead(date, cutoff_hour, t, conf) ==
    LET d0 == IF date = None THEN NowIn(t, conf) ELSE The(date)
        d  == IF d0.tz = None THEN ReplaceTz(d0, conf) ELSE d0
    IN  IF ~ is_sunday(Some(d), t, conf) THEN FALSE
        ELSE IF HourOf(d) >= cutoff_hour THEN TRUE
        ELSE FALSE

\* One endpoint's answer to a week query: kind "ok" carries the week (and, for
\* the team matchups endpoint, the matchup's status, "absent" when the payload
\* has none); the other kinds are the ways a tier fails.
TierOk(w, s) == [kind |-> "ok", week |-> w, status |-> s]
TierFail(k) == [kind |-> k, week |-> 0, status |-> "absent"]
FailKinds == {"exception", "non200", "missing"}

\* The date arithmetic at the end of get_current_week
DateMathWeek(t, srv) ==
    LET today == NowNaive(t, srv)
        days_since_start == today.wall \div DayMin
    IN  IF today.wall < 0 THEN 1
        ELSE Min2(Max2(1, (days_since_start \div 7) + 1), 23)

\* A cascade that asks the team matchups endpoint before the team endpoint
get_current_week_matchups_first(cache, use_roster_api, net, t, srv) ==
    IF cache # None
    THEN [week |-> The(cache), cache |-> cache, reqs |-> <<>>, src |-> "cache"]
    ELSE IF net.matchups.kind = "ok"
    THEN [week |-> net.matchups.week, cache |-> Some(net.matchups.week),
          reqs |-> <<"team_matchups">>, src |-> "matchups"]
    ELSE IF net.team.kind = "ok"
    THEN [week |-> net.team.week, cache |-> Some(net.team.week),
          reqs |-> <<"team_matchups", "team">>, src |-> "roster_adds"]
    ELSE [week |-> DateMathWeek(t, srv), cache |-> cache,
          reqs |-> <<"team_matchups", "team">>, src |-> "date_math"]

\* A matchups tier that takes a matchup without status as not completed
get_current_week_status_kept(cache, use_roster_api, net, t, srv) ==
    IF cache # None
    THEN [week |-> The(cache), cache |-> cache, reqs |-> <<>>, src |-> "cache"]
    ELSE
    LET r1 == IF use_roster_api THEN <<"team">> ELSE <<>>
        r2 == Append(r1, "team_matchups")
        r3 == Append(r2, "league_scoreboard")
    IN  IF use_roster_api /\ net.team.kind = "ok" /\ net.team.week # 0
        THEN [week |-> net.team.week, cache |-> Some(net.team.week),
              reqs |-> r1, src |-> "roster_adds"]
        ELSE IF net.matchups.kind = "ok"
        THEN LET status == net.matchups.status
                 week == IF status = "postevent" THEN net.matchups.week + 1
                         ELSE net.matchups.week
             IN  [week |-> week, cache |-> Some(week), reqs |-> r2, src |-> "matchups"]
        ELSE IF net.scoreboard.kind = "ok"
        THEN [week |-> net.scoreboard.week, cache |-> Some(net.scoreboard.week),
              reqs |-> r3, src |-> "scoreboard"]
        ELSE [week |-> DateMathWeek(t, srv), cache |-> cache,
              reqs |-> r3, src |-> "date_math"]

get_current_week(cache, use_roster_api, net, t, srv) ==
    IF cache # None
    THEN [week |-> The(cache), cache |-> cache, reqs |-> <<>>, src |-> "cache"]
    ELSE
    LET r1 == IF use_roster_api THEN <<"team">> ELSE <<>>
        r2 == Append(r1, "team_matchups")
        r3 == Append(r2, "league_scoreboard")
    IN  IF use_roster_api /\ net.team.kind = "ok" /\ net.team.week # 0
        THEN [week |-> net.team.week, cache |-> Some(net.team.week),
              reqs |-> r1, src |-> "roster_adds"]
        ELSE IF net.matchups.kind = "ok"
        THEN LET status == IF net.matchups.status = "absent" THEN "postevent"
                           ELSE net.matchups.status
                 week == IF status = "postevent" THEN net.matchups.week + 1
                         ELSE net.matchups.week
             IN  [week |-> week, cache |-> Some(week), reqs |-> r2, src |-> "matchups"]
        ELSE IF net.scoreboard.kind = "ok"
        THEN [week |-> net.scoreboard.week, cache |-> Some(net.scoreboard.week),
              reqs |-> r3, src |-> "scoreboard"]
        ELSE [week |-> DateMathWeek(t, srv), cache |-> cache,
              reqs |-> r3, src |-> "date_math"]

get_target_week(cache, date, cutoff_hour, debug, net, net2, t, conf, srv) ==
    LET c1 == get_current_week(cache, TRUE, net, t, srv)
        c2 == get_current_week(c1.cache, FALSE, net2, t, srv)
    IN  [week |-> IF should_look_ahead(date, cutoff_hour, t, conf)
                  THEN c1.week + 1 ELSE c1.week,
         current_week |-> c1.week,
         cache |-> IF debug THEN c2.cache ELSE c1.cache,
         reqs |-> IF debug THEN c1.reqs \o c2.reqs ELSE c1.reqs,
         src |-> c1.src]

\* The raw matchup payload for a week: its week, its status, the team keys of
\* its two teams in payload order.
RawMatchup(week, teams) == [week |-> week, status |-> "preevent", teams |-> teams]

\* The try block of get_matchup_for_week.
\* resp.team: the team matchups endpoint ("matchup": 200 with a matchup dict,
\* "no_matchup": 200 without one, "non200", "exception");
\* resp.board: the league scoreboard ("mine": a matchup holds team_key,
\* "others": matchups but none with team_key, "empty", "non200", "exception").
\* raised: an exception left the block.
fetch_matchup(team_key, week, resp) ==
    IF resp.team = "exception"
    THEN [matchup |-> None, reqs |-> <<"team_matchups">>, raised |-> TRUE]
    ELSE IF resp.team = "matchup"
    THEN [matchup |-> Some(RawMatchup(week, <<team_key, OppTeam>>)),
          reqs |-> <<"team_matchups">>, raised |-> FALSE]
    ELSE LET reqs == <<"team_matchups", "league_scoreboard">>
         IN  IF resp.board = "exception"
             THEN [matchup |-> None, reqs |-> reqs, raised |-> TRUE]
             ELSE IF resp.board = "non200"
             THEN [matchup |-> None, reqs |-> reqs, raised |-> FALSE]
             ELSE IF resp.board = "mine"
             THEN [matchup |-> Some(RawMatchup(week, <<OppTeam, team_key>>)),
                   reqs |-> reqs, raised |-> FALSE]
             ELSE IF resp.board = "others"
             THEN [matchup |-> Some(RawMatchup(week, <<OppTeam, OtherTeam>>)),
                   reqs |-> reqs, raised |-> FALSE]
             ELSE [matchup |-> None, reqs |-> reqs, raised |-> FALSE]

\* The fetch without its exception handler
get_matchup_for_week_uncaught(team_key, week, resp) == fetch_matchup(team_key, week, resp)

\* try: fetch_matchup; except Exception: return None
get_matchup_for_week(team_key, week, resp) ==
    LET r == fetch_matchup(team_key, week, resp)
    IN  IF r.raised THEN [matchup |-> None, reqs |-> r.reqs, raised |-> FALSE]
        ELSE r

\* The first of the two teams whose key is not my_team_key
parse_matchup_info(matchup_raw, my_team_key) ==
    LET others == {i \in 1..Len(matchup_raw.teams) : matchup_raw.teams[i] # my_team_key}
        first == CHOOSE i \in others : \A j \in others : i <= j
    IN  [week |-> matchup_raw.week,
         status |-> matchup_raw.status,
         opponent_key |-> IF others = {} THEN None ELSE Some(matchup_raw.teams[first])]

\* A fallback that never happens
no_fallback(matchup_raw, is_lookahead) == FALSE

\* "if matchup_raw is None and is_lookahead": fall back to the current week
fallback_needed(matchup_raw, is_lookahead) == matchup_raw = None /\ is_lookahead

\* fetch.next and fetch.cur: the platform's answers for the week after the
\* resolved current week and for any other week.  Besides the fields of the
\* returned dict, the result records the resolved current week, the first
\* look-ahead decision, the weeks fetched, and whether an exception escaped.
\* Each call the method makes is made once and its result bound to a name.
get_optimal_matchup(team_key, cache, date, cutoff_hour, net, fetch, t, conf, srv) ==
    LET d == IF date = None THEN NowNaive(t, srv) ELSE The(date)
        respFor(current_week, w) == IF w = current_week + 1 THEN fetch.next ELSE fetch.cur
        Result(tw, look0, fetched, reqs, target_week, is_lookahead, current_date, matchup,
               error, exc) ==
            [week |-> target_week, is_lookahead |-> is_lookahead,
             current_date |-> current_date, matchup |-> matchup, error |-> error,
             raised |-> exc,
             current_week |-> tw.current_week, look0 |-> look0,
             fetched |-> fetched, cache |-> tw.cache, reqs |-> reqs]
        Finish(tw, look0, fetched, reqs, target_week, is_lookahead, m) ==
            IF m.raised
            THEN Result(tw, look0, fetched, reqs, target_week, is_lookahead,
                        None, None, None, TRUE)
            ELSE IF m.matchup = None
            THEN Result(tw, look0, fetched, reqs, target_week, is_lookahead,
                        None, None, Some("Could not fetch matchup data"), FALSE)
            ELSE Result(tw, look0, fetched, reqs, target_week, is_lookahead,
                        Some(d), Some(parse_matchup_info(The(m.matchup), team_key)),
                        None, FALSE)
    IN  The({The({The({
            IF ~ m1.raised /\ fallback_needed(m1.matchup, look0)
            THEN The({Finish(tw, look0, <<tw.week, tw.week - 1>>,
                             tw.reqs \o m1.reqs \o m2.reqs, tw.week - 1, FALSE, m2)
                      : m2 \in {get_matchup_for_week(team_key, tw.week - 1,
                                                     respFor(tw.current_week, tw.week - 1))}})
            ELSE Finish(tw, look0, <<tw.week>>, tw.reqs \o m1.reqs, tw.week, look0, m1)
            : m1 \in {get_matchup_for_week(team_key, tw.week,
                                           respFor(tw.current_week, tw.week))}})
            : look0 \in {should_look_ahead(Some(d), cutoff_hour, t, conf)}})
            : tw \in {get_target_week(cache, Some(d), cutoff_hour, FALSE, net, net,
                                      t, conf, srv)}})

-----------------------------------------------------------------------------
(* AIAnalyzer *)

SUNDAY_CUTOFF_HOUR == 22
DEFAULT_MAX_MOVES_PER_WEEK == 4

\* A roster or a list of free agents is a sequence of players, each known by
\* its name (a number).  The platform answers a roster request with a roster
\* (kind "ok", possibly empty) or the request fails (get_my_roster raises).
RosterOk(r) == [kind |-> "ok", roster |-> r]
RosterFail == [kind |-> "fail", roster |-> <<>>]

\* What a load from data/ or a fetch hands back: a value, or an exception
Value(v) == [raised |-> FALSE, value |-> v]
Raise(e) == [raised |-> TRUE, value |-> e]

_get_roster_for_date(has_fetchers, resp) ==
    IF ~ has_fetchers THEN <<>>
    ELSE IF resp.kind = "ok" THEN resp.roster
    ELSE <<>>

\* A check that reports no pending drop
no_dropped_players(has_fetchers, today, tomorrow) == {}

_get_already_dropped_players(has_fetchers, today, tomorrow) ==
    IF ~ has_fetchers THEN {}
    ELSE LET roster_today == _get_roster_for_date(has_fetchers, today)
             roster_tomorrow == _get_roster_for_date(has_fetchers, tomorrow)
         IN  IF roster_today = <<>> \/ roster_tomorrow = <<>> THEN {}
             ELSE Range(roster_today) \ Range(roster_tomorrow)

_load_roster_from_file(file) ==
    IF file = None THEN Raise("FileNotFoundError") ELSE Value(The(file))

\* main, today, tomorrow: the platform's answers to the undated roster request
\* and to the two dated ones; file: data/my_roster.json.  The result carries
\* the new content of that file and the requests made.
fetch_live_roster(has_fetchers, filter_dropped, main, today, tomorrow, file) ==
    LET load == _load_roster_from_file(file)
        Fallback(reqs) == [raised |-> load.raised, roster |-> IF load.raised THEN <<>> ELSE load.value,
                           file |-> file, reqs |-> reqs]
    IN  IF ~ has_fetchers THEN Fallback(<<>>)
        ELSE IF main.kind # "ok" THEN Fallback(<<"roster">>)
        ELSE IF main.roster = <<>> THEN Fallback(<<"roster">>)
        ELSE LET already_dropped ==
                     IF filter_dropped
                     THEN _get_already_dropped_players(has_fetchers, today, tomorrow)
                     ELSE {}
                 roster_data ==
                     IF already_dropped # {}
                     THEN SelectSeq(main.roster, LAMBDA q : q \notin already_dropped)
                     ELSE main.roster
             IN  [raised |-> FALSE, roster |-> roster_data, file |-> Some(roster_data),
                  reqs |-> IF filter_dropped
                           THEN <<"roster", "roster_today", "roster_tomorrow">>
                           ELSE <<"roster">>]

_load_players_from_file(file) ==
    IF file = None THEN Raise("FileNotFoundError") ELSE Value(The(file))

\* cached: the fresh cache entry; live: the platform's healthy free agents or
\* a failed fetch; file: data/healthy_players.json
fetch_live_available_players(has_fetchers, cached, live, file) ==
    LET load == _load_players_from_file(file)
        Fallback == [raised |-> load.raised, players |-> IF load.raised THEN <<>> ELSE load.value,
                     file |-> file, cache |-> cached]
    IN  IF ~ has_fetchers THEN Fallback
        ELSE IF cached # None /\ The(cached) # <<>>
        THEN [raised |-> FALSE, players |-> The(cached), file |-> file, cache |-> cached]
        ELSE IF live.kind # "ok" THEN Fallback
        ELSE IF live.roster = <<>> THEN Fallback
        ELSE [raised |-> FALSE, players |-> live.roster, file |-> Some(live.roster),
              cache |-> Some(live.roster)]

\* key: the answer of auth.get_team_key ("ok", or "fail": it raises ValueError).
\* Without the fetchers there is neither a scheduler nor a matchup analyzer to
\* ask, and the attribute access on None raises.
_get_target_week(has_fetchers, key, cache, sunday_cutoff_hour, net, net2, t, conf, srv) ==
    IF ~ has_fetchers THEN [raised |-> TRUE, week |-> 0, cache |-> cache, error |-> "AttributeError"]
    ELSE IF key # "ok" THEN [raised |-> TRUE, week |-> 0, cache |-> cache, error |-> "ValueError"]
    ELSE LET tw == get_target_week(cache, None, sunday_cutoff_hour, TRUE, net, net2, t, conf, srv)
         IN  [raised |-> FALSE, week |-> tw.week, cache |-> tw.cache, error |-> ""]

_load_matchup_from_file(file) == file

\* The keys of the dict analyze_matchup returns (opponent_analyzer.py 54-123)
ErrorKeys == {"error"}
AnalysisKeys ==
    {"my_projections", "opponent_projections", "category_gaps", "classification",
     "opponent_roster_size", "injury_info", "schedule_based"}

\* resp.kind: "ok" (scoreboard, my matchup, opponent and both teams' stats
\* found), "none" (one of them missing: the fetch returns None), "exception";
\* resp.opp: the opponent analysis returns its result ("ok"), an error dict
\* ("no_schedule") or raises ("exception"); games_per_team is copied when the
\* returned dict has that key.  file: data/weekly_matchup.json.
fetch_live_matchup(has_fetchers, target_week, resp, file) ==
    IF ~ has_fetchers THEN [matchup |-> _load_matchup_from_file(file), file |-> file]
    ELSE IF resp.kind = "exception" THEN [matchup |-> _load_matchup_from_file(file), file |-> file]
    ELSE IF resp.kind = "none" THEN [matchup |-> None, file |-> file]
    ELSE LET matchup_data == [week |-> target_week, games_per_team |-> /\ resp.opp # "exception"
                                                /\ "games_per_team" \in
                                                       (IF resp.opp = "ok" THEN AnalysisKeys
                                                        ELSE ErrorKeys)]
         IN  [matchup |-> Some(matchup_data), file |-> Some(matchup_data)]

NoMoves == [moves_made |-> None, max_moves |-> None, moves_remaining |-> None]

\* Moves left without the floor at zero
moves_remaining_unclamped(has_fetchers, resp) ==
    IF has_fetchers /\ resp.kind = "ok"
    THEN [moves_made |-> Some(resp.value), max_moves |-> Some(DEFAULT_MAX_MOVES_PER_WEEK),
          moves_remaining |-> Some(DEFAULT_MAX_MOVES_PER_WEEK - resp.value)]
    ELSE NoMoves

\* resp.kind: "ok" (roster_adds found, resp.value moves made), "key_error"
\* (get_team_key raises), "exception", "non200", "missing" (no roster_adds)
_get_roster_moves_remaining(has_fetchers, resp) ==
    IF ~ has_fetchers THEN NoMoves
    ELSE IF resp.kind \in {"key_error", "exception", "non200", "missing"} THEN NoMoves
    ELSE LET moves_made == resp.value
             max_moves == DEFAULT_MAX_MOVES_PER_WEEK
             moves_remaining == Max2(0, max_moves - moves_made)
         IN  [moves_made |-> Some(moves_made), max_moves |-> Some(max_moves),
              moves_remaining |-> Some(moves_remaining)]

\* The task instruction build_optimized_prompt appends: which text, and the
\* number it names
task_instruction(moves_remaining) ==
    IF moves_remaining # None
    THEN IF The(moves_remaining) = 0 THEN [kind |-> "no_moves_remaining", n |-> 0]
         ELSE IF The(moves_remaining) = 1 THEN [kind |-> "only_1_move", n |-> 1]
         ELSE [kind |-> "up_to_n_moves", n |-> The(moves_remaining)]
    ELSE [kind |-> "3_to_5_moves", n |-> 0]

\* The prompt by its sections: the roster, the free agents, the matchup section
\* (absent when there is no matchup data), the roster moves line (absent when
\* the moves are unknown), the task instruction
build_optimized_prompt(has_fetchers, my_roster, available_players, matchup_data, moves_resp) ==
    LET moves == _get_roster_moves_remaining(has_fetchers, moves_resp)
    IN  [roster |-> my_roster,
         available |-> available_players,
         matchup |-> matchup_data,
         moves_line |-> IF moves.moves_remaining # None THEN Some(moves) ELSE None,
         task |-> task_instruction(moves.moves_remaining)]

\* resp: the language model answers ("ok") or the call fails ("error")
call_claude_api(has_client, resp) ==
    IF ~ has_client THEN Raise("RuntimeError")
    ELSE IF resp = "ok" THEN Value("response")
    ELSE Raise("APIError")

Running == [kind |-> "running", value |-> None]
Returned(v) == [kind |-> "returned", value |-> v]
Raised(e) == [kind |-> "raised", value |-> Some(e)]

NoRun == [my_roster |-> <<>>, available_players |-> <<>>, target_week |-> 0,
          matchup_data |-> None, prompt |-> None]
NoStep == [op |-> "none"]
EmptyDisk == [roster |-> None, players |-> None, matchup |-> None, prompt |-> None, recs |-> None]

\* No analysis is running
AnalyzerIdle ==
    /\ client = FALSE
    /\ fetchers = FALSE
    /\ playersCache = None
    /\ disk = EmptyDisk
    /\ apc = "idle"
    /\ run = NoRun
    /\ step = NoStep
    /\ failed = {}
    /\ llmCalls = 0
    /\ outcome = Running
    /\ pending = {}

-----------------------------------------------------------------------------
(* PlayerEvaluator.  Per-game stats and minutes are counted in tenths,       *)
(* shooting percentages in hundredths, scores in hundredths; the arithmetic  *)
(* is exact where the code's is floating point.                              *)

\* A player dict: minutes is Optional; PTS, REB, AST, ST, BLK, TPM ("3PTM")
\* and TO are season_stats
Player(name, minutes, pts, reb, ast, st, blk, tpm, to, fg, ft, games, pos) ==
    [name |-> name, minutes |-> minutes, PTS |-> pts, REB |-> reb, AST |-> ast, ST |-> st,
     BLK |-> blk, TPM |-> tpm, TO |-> to, FG |-> fg, FT |-> ft,
     games_remaining |-> games, primary_position |-> pos]

\* Hard filters that take any minutes
passes_any_minutes(player) ==
    /\ player.PTS >= 80
    /\ Cardinality({c \in {"PTS", "REB", "AST", "ST", "BLK", "TPM"} :
           CASE c = "PTS" -> player.PTS >= 100
             [] c = "REB" -> player.REB >= 60
             [] c = "AST" -> player.AST >= 40
             [] c = "ST"  -> player.ST >= 10
             [] c = "BLK" -> player.BLK >= 10
             [] c = "TPM" -> player.TPM >= 15}) >= 2

passes_hard_filters(player) ==
    LET strong_cats ==
            (IF player.PTS >= 100 THEN 1 ELSE 0) + (IF player.REB >= 60 THEN 1 ELSE 0)
          + (IF player.AST >= 40 THEN 1 ELSE 0) + (IF player.ST >= 10 THEN 1 ELSE 0)
          + (IF player.BLK >= 10 THEN 1 ELSE 0) + (IF player.TPM >= 15 THEN 1 ELSE 0)
    IN  IF player.minutes = None \/ The(player.minutes) = 0 \/ The(player.minutes) < 200
        THEN FALSE
        ELSE IF player.PTS < 80 THEN FALSE
        ELSE IF strong_cats < 2 THEN FALSE
        ELSE TRUE

\* The quality score as a fraction num / den, den > 0: the weighted per-36
\* stats plus the percentage bonuses, floored at 0.  With m the minutes in
\* tenths and W the weighted sum of the stats in hundredths,
\* score = (360 / m) * (W / 100) + bonus = (18 W + 5 bonus m) / (5 m).
calculate_quality_score(player) ==
    LET m == IF player.minutes = None THEN 360 ELSE The(player.minutes)
        W == (10 * player.PTS) + (12 * player.REB) + (15 * player.AST) + (30 * player.ST)
               + (30 * player.BLK) + (15 * player.TPM) - (5 * player.TO)
        fg_bonus == IF player.FG >= 50 THEN 5 ELSE IF player.FG >= 45 THEN 2 ELSE 0
        ft_bonus == IF player.FT >= 85 THEN 3 ELSE IF player.FT >= 80 THEN 1 ELSE 0
        num == (18 * W) + (5 * (fg_bonus + ft_bonus) * m)
    IN  IF m <= 0 THEN [num |-> 0, den |-> 1]
        ELSE [num |-> Max2(0, num), den |-> 5 * m]

\* quality_score < threshold
Below(q, threshold) == q.num < threshold * q.den

\* A games bonus that does not look at the quality tier
games_multiplier_untiered(player, quality_score) ==
    LET games == player.games_remaining
    IN  IF games <= 2 THEN 20 ELSE IF games = 3 THEN 23
        ELSE Min2(26, 20 + ((games - 2) * 3))

\* The multiplier in twentieths: 1.0 is 20, 1.05 is 21, 1.10 is 22, 1.15 is 23,
\* 1.30 is 26
calculate_games_multiplier(player, quality_score) ==
    LET games == player.games_remaining
    IN  IF Below(quality_score, 30) THEN 20
        ELSE IF Below(quality_score, 45)
        THEN IF games <= 2 THEN 20 ELSE IF games = 3 THEN 21 ELSE 22
        ELSE IF games <= 2 THEN 20 ELSE IF games = 3 THEN 23
        ELSE Min2(26, 20 + ((games - 2) * 3))

\* The multiplier in twentieths
calculate_position_bonus(player, quality_score) ==
    IF Below(quality_score, 35) THEN 20
    ELSE IF player.primary_position = "C"
    THEN IF player.REB >= 80 \/ player.BLK >= 10 THEN 23 ELSE 21
    ELSE IF player.primary_position = "PG"
    THEN IF player.AST >= 60 THEN 23 ELSE 21
    ELSE 20

\* round(n / den), halves to the even neighbour
RoundDiv(n, den) ==
    LET f == n \div den
        r2 == 2 * (n % den)
    IN  IF r2 < den THEN f
        ELSE IF r2 > den THEN f + 1
        ELSE IF f % 2 = 0 THEN f ELSE f + 1

\* passes_filter and final_score as evaluate_player sets them; final_score is
\* round(quality * games_mult * position_mult, 2) in hundredths, that is
\* 100 * (num / den) * (games_mult / 20) * (position_mult / 20) rounded
evaluate_player(player) ==
    IF ~ passes_hard_filters(player)
    THEN [player |-> player, passes_filter |-> FALSE, final_score |-> 0]
    ELSE LET quality == calculate_quality_score(player)
             games_mult == calculate_games_multiplier(player, quality)
             position_mult == calculate_position_bonus(player, quality)
         IN  [player |-> player, passes_filter |-> TRUE,
              final_score |-> RoundDiv(quality.num * games_mult * position_mult,
                                       quality.den * 4)]

\* list.sort(key=final_score, reverse=True): stable, highest first
RECURSIVE SortByFinalScore(_)
SortByFinalScore(s) ==
    IF Len(s) <= 1 THEN s
    ELSE LET rest == SortByFinalScore(Tail(s))
             before == {i \in 1..Len(rest) : rest[i].final_score > Head(s).final_score}
             k == Cardinality(before)
         IN  SubSeq(rest, 1, k) \o <<Head(s)>> \o SubSeq(rest, k + 1, Len(rest))

\* Each evaluated player keeps idx, its place in the players argument
filter_and_rank(plist, lim) ==
    LET all == [i \in 1..Len(plist) |->
                    [idx |-> i, player |-> plist[i],
                     passes_filter |-> evaluate_player(plist[i]).passes_filter,
                     final_score |-> evaluate_player(plist[i]).final_score]]
        evaluated == SelectSeq(all, LAMBDA e : e.passes_filter)
        sorted == SortByFinalScore(evaluated)
    IN  SubSeq(sorted, 1, Min2(lim, Len(sorted)))

\* No filter_and_rank call is under way
EvaluatorIdle ==
    /\ players = <<>>
    /\ limit = 0
    /\ ranked = <<>>
    /\ epc = "idle"

\* A component on which nothing is called
Idle == [pc |-> "idle"]

\* None of the helpers below is in use
UtilsIdle ==
    /\ gm = Idle
    /\ cmp = Idle
    /\ gaps = Idle
    /\ oa = Idle
    /\ sc = Idle
    /\ ya = Idle
    /\ rt = Idle
    /\ rl = Idle
    /\ pf = Idle
    /\ gs = Idle
    /\ cl = Idle
    /\ en = Idle
    /\ sf = Idle

-----------------------------------------------------------------------------
(* The inputs the scheduler is called with *)

MaxWeek == 2

\* Hours east of UTC: US/Pacific (standard time), UTC, Asia/Tokyo
Zones == {-8, 0, 9}

\* The zones a deployment is configured with, and the zones its server runs in
ConfZones == {-8, 9}
SrvZones == {-8, 0}

Instant(day, hour, minute) == ((day * 24) + hour) * 60 + minute

\* Wall-clock readings around Sunday 2025-10-26: every full hour of the Sunday
\* and its last minute before 22:00 and before midnight, and some readings of
\* the Saturday before and the Monday after
WeekendWalls ==
    {Instant(5, h, 0) : h \in 0..23}
        \cup {Instant(5, 21, 59), Instant(5, 23, 59)}
        \cup {Instant(4, 0, 0), Instant(4, 15, 0), Instant(4, 23, 0), Instant(4, 23, 59)}
        \cup {Instant(6, 0, 0), Instant(6, 8, 0), Instant(6, 16, 0)}

\* Readings around the look-ahead boundaries, and mid-Sunday and Monday morning
BoundaryWalls ==
    {Instant(4, 23, 59), Instant(5, 10, 0), Instant(5, 21, 59), Instant(5, 22, 0),
     Instant(5, 23, 59), Instant(6, 0, 0), Instant(6, 6, 0)}

\* Readings across the season: before it starts, its first day, the end of its
\* first week, the start of its second, and after its 23rd week
SeasonWalls ==
    {Instant(-1, 12, 0), Instant(0, 0, 0), Instant(6, 23, 59), Instant(7, 0, 0),
     Instant((MaxWeek * 7) + 5, 22, 0), Instant((23 * 7) + 5, 22, 0)}

\* The instant at which the wall clock of zone off reads wall
AtWall(wall, off) == wall - (60 * off)

\* What a caller may pass as date at instant t: nothing, the instant as an
\* aware datetime of some zone, or the naive wall-clock reading of some zone
DateArgs(t) ==
    {None} \cup {Some(NowIn(t, z)) : z \in Zones}
           \cup {Some(NowNaive(t, z)) : z \in Zones}

Statuses == {"preevent", "midevent", "postevent", "absent"}

Nets ==
    [team : {TierOk(w, "absent") : w \in 1..MaxWeek} \cup {TierFail(k) : k \in FailKinds},
     matchups : {TierOk(w, s) : w \in 1..MaxWeek, s \in Statuses} \cup {TierFail(k) : k \in FailKinds},
     scoreboard : {TierOk(w, "absent") : w \in 1..MaxWeek} \cup {TierFail(k) : k \in FailKinds}]

\* The platform up and agreeing on the week w, or one tier after the other down
NetsBrief ==
    UNION {[team : {TierOk(w, "absent"), TierFail("exception")},
            matchups : {TierOk(w, "midevent"), TierOk(w - 1, "postevent"), TierFail("non200")},
            scoreboard : {TierOk(w, "absent"), TierFail("missing")}] : w \in 1..MaxWeek}

NetUp(w) == [team |-> TierOk(w, "absent"), matchups |-> TierOk(w, "midevent"),
             scoreboard |-> TierOk(w, "absent")]
NetDown == [team |-> TierFail("exception"), matchups |-> TierFail("exception"),
            scoreboard |-> TierFail("exception")]

Resps ==
    [team : {"matchup", "exception"}, board : {"empty"}]
        \cup [team : {"non200", "no_matchup"},
              board : {"mine", "others", "empty", "non200", "exception"}]

RespsBrief ==
    {[team |-> "matchup", board |-> "empty"], [team |-> "exception", board |-> "empty"],
     [team |-> "non200", board |-> "mine"], [team |-> "no_matchup", board |-> "empty"]}

\* Every tier of the week cascade down, each in one of the ways a tier fails
NetsDown ==
    [team : {TierFail(k) : k \in FailKinds},
     matchups : {TierFail(k) : k \in FailKinds},
     scoreboard : {TierFail(k) : k \in FailKinds}]

NoCall == [op |-> "none"]

Args(op, t, date, cutoff, net, net2, fetch, flag, week) ==
    [op |-> op, t |-> t, date |-> date, cutoff |-> cutoff, net |-> net, net2 |-> net2,
     fetch |-> fetch, flag |-> flag, week |-> week, cache0 |-> weekCache]

NoFetch == [next |-> [team |-> "exception", board |-> "empty"],
            cur |-> [team |-> "exception", board |-> "empty"]]

-----------------------------------------------------------------------------
(* The scheduler's operations, each called from idle *)

CallIsSunday ==
    /\ spc = "idle"
    /\ \E w \in WeekendWalls :
        LET t == AtWall(w, tzConf) IN
        \E date \in DateArgs(t) :
            /\ call' = Args("is_sunday", t, date, 0, NetDown, NetDown, NoFetch, FALSE, 0)
            /\ ret' = [value |-> is_sunday(date, t, tzConf)]
    /\ spc' = "called"
    /\ UNCHANGED <<tzConf, tzSrv, weekCache, avars, evars, uvars>>

CallShouldLookAhead ==
    /\ spc = "idle"
    /\ \E w \in WeekendWalls, cutoff \in 0..23 :
        LET t == AtWall(w, tzConf) IN
        \E date \in DateArgs(t) :
            /\ call' = Args("should_look_ahead", t, date, cutoff, NetDown, NetDown, NoFetch, FALSE, 0)
            /\ ret' = [value |-> should_look_ahead(date, cutoff, t, tzConf)]
    /\ spc' = "called"
    /\ UNCHANGED <<tzConf, tzSrv, weekCache, avars, evars, uvars>>

CallGetCurrentWeek ==
    /\ spc = "idle"
    /\ \E w \in {Instant(5, 22, 0)}, use_roster_api \in BOOLEAN, net \in Nets :
        LET t == AtWall(w, tzConf)
            r == get_current_week(weekCache, use_roster_api, net, t, tzSrv)
        IN  /\ call' = Args("get_current_week", t, None, 0, net, net, NoFetch, use_roster_api, 0)
            /\ ret' = r
            /\ weekCache' = r.cache
    /\ spc' = "called"
    /\ UNCHANGED <<tzConf, tzSrv, avars, evars, uvars>>

\* get_current_week with the platform unreachable, across the season
CallGetCurrentWeekOffline ==
    /\ spc = "idle"
    /\ \E w \in SeasonWalls, use_roster_api \in BOOLEAN, net \in NetsDown :
        LET t == AtWall(w, tzConf)
            r == get_current_week(weekCache, use_roster_api, net, t, tzSrv)
        IN  /\ call' = Args("get_current_week", t, None, 0, net, net, NoFetch, use_roster_api, 0)
            /\ ret' = r
            /\ weekCache' = r.cache
    /\ spc' = "called"
    /\ UNCHANGED <<tzConf, tzSrv, avars, evars, uvars>>

CallGetTargetWeek ==
    /\ spc = "idle"
    /\ \E w \in WeekendWalls, cutoff \in 0..23, wk \in {1} :
        LET t == AtWall(w, tzConf) IN
        \E date \in DateArgs(t) :
            LET r == get_target_week(weekCache, date, cutoff, FALSE, NetUp(wk), NetUp(wk),
                                     t, tzConf, tzSrv)
            IN  /\ call' = Args("get_target_week", t, date, cutoff, NetUp(wk), NetUp(wk),
                                NoFetch, FALSE, 0)
                /\ ret' = r
                /\ weekCache' = r.cache
    /\ spc' = "called"
    /\ UNCHANGED <<tzConf, tzSrv, avars, evars, uvars>>

\* get_target_week(debug=True), as AIAnalyzer._get_target_week calls it; the
\* platform may answer the second resolution differently from the first
CallGetTargetWeekDebug ==
    /\ spc = "idle"
    /\ \E w \in SeasonWalls, cutoff \in {22},
          net \in NetsBrief, net2 \in NetsBrief :
        LET t == AtWall(w, tzConf)
            r == get_target_week(weekCache, None, cutoff, TRUE, net, net2, t, tzConf, tzSrv)
        IN  /\ call' = Args("get_target_week", t, None, cutoff, net, net2, NoFetch, TRUE, 0)
            /\ ret' = r
            /\ weekCache' = r.cache
    /\ spc' = "called"
    /\ UNCHANGED <<tzConf, tzSrv, avars, evars, uvars>>

CallGetMatchupForWeek ==
    /\ spc = "idle"
    /\ \E week \in 1..(MaxWeek + 1), resp \in Resps :
        /\ call' = Args("get_matchup_for_week", 0, None, 0, NetDown, NetDown,
                        [next |-> resp, cur |-> resp], FALSE, week)
        /\ ret' = get_matchup_for_week(MyTeam, week, resp)
    /\ spc' = "called"
    /\ UNCHANGED <<tzConf, tzSrv, weekCache, avars, evars, uvars>>

CallGetOptimalMatchup ==
    /\ spc = "idle"
    /\ \E w \in BoundaryWalls, cutoff \in {0, 22},
          net \in {NetUp(wk) : wk \in 1..MaxWeek} \cup {NetDown},
          fetch \in [next : Resps, cur : RespsBrief] :
        LET t == AtWall(w, tzConf) IN
        \E date \in {None, Some(NowIn(t, tzConf)), Some(NowNaive(t, tzConf))} :
            LET r == get_optimal_matchup(MyTeam, weekCache, date, cutoff, net, fetch,
                                         t, tzConf, tzSrv)
            IN  /\ call' = Args("get_optimal_matchup", t, date, cutoff, net, net, fetch, FALSE, 0)
                /\ ret' = r
                /\ weekCache' = r.cache
    /\ spc' = "called"
    /\ UNCHANGED <<tzConf, tzSrv, avars, evars, uvars>>

\* The caller takes the result
Return ==
    /\ spc = "called"
    /\ spc' = "idle"
    /\ call' = NoCall
    /\ ret' = NoCall
    /\ UNCHANGED <<tzConf, tzSrv, weekCache, avars, evars, uvars>>

\* A new process: _load_cache keeps the cached week when the cache file is
\* present, parses and is less than 24 hours old, and starts empty otherwise
Restart ==
    /\ spc = "idle"
    /\ weekCache # None
    /\ weekCache' = None
    /\ UNCHANGED <<tzConf, tzSrv, spc, call, ret, avars, evars, uvars>>

SchedInit ==
    /\ tzConf \in ConfZones
    /\ tzSrv \in SrvZones
    /\ weekCache = None
    /\ spc = "idle"
    /\ call = NoCall
    /\ ret = NoCall
    /\ AnalyzerIdle
    /\ EvaluatorIdle
    /\ UtilsIdle

SchedNext ==
    \/ CallIsSunday
    \/ CallShouldLookAhead
    \/ CallGetCurrentWeek
    \/ CallGetCurrentWeekOffline
    \/ CallGetTargetWeek
    \/ CallGetTargetWeekDebug
    \/ CallGetMatchupForWeek
    \/ CallGetOptimalMatchup
    \/ Return
    \/ Restart

Spec == SchedInit /\ [][SchedNext]_vars

-----------------------------------------------------------------------------
(* Properties of the scheduler *)

Called(op) == spc = "called" /\ call.op = op

\* The instant a date argument stands for: now when absent, its own zone's
\* reading when aware, the configured zone's reading when naive
InstantOf(date, t) ==
    IF date = None THEN t
    ELSE IF The(date).tz = None THEN The(date).wall - (60 * tzConf)
    ELSE The(date).wall - (60 * The(The(date).tz))

\* The instant i, read in the configured timezone, is a Sunday at or past cutoff
LookAheadAt(i, cutoff) ==
    LET d == NowIn(i, tzConf) IN Weekday(d) = 6 /\ HourOf(d) >= cutoff

\* The platform holds a matchup that get_matchup_for_week finds
Fetchable(resp) ==
    \/ resp.team = "matchup"
    \/ resp.team \in {"non200", "no_matchup"} /\ resp.board \in {"mine", "others"}

\* C1: when get_optimal_matchup decides to look ahead and the week after the
\* current week has no fetchable matchup, the result has is_lookahead false
\* and week = current_week, and it carries the current week's matchup
\* whenever that one is fetchable.
C1_LookAheadFallback ==
    (Called("get_optimal_matchup") /\ ret.look0 /\ ~ Fetchable(call.fetch.next))
        => /\ ret.is_lookahead = FALSE
           /\ ret.week = ret.current_week
           /\ Fetchable(call.fetch.cur) =>
                 /\ ret.matchup # None
                 /\ The(ret.matchup).week = ret.current_week

C1_FellBackToCurrentWeek ==
    /\ Called("get_optimal_matchup")
    /\ ret.look0
    /\ ~ Fetchable(call.fetch.next)
    /\ Fetchable(call.fetch.cur)
    /\ ret.fetched = <<ret.current_week + 1, ret.current_week>>
    /\ ret.is_lookahead = FALSE
    /\ ret.matchup # None

\* C2: for every date argument and every cutoff hour, get_target_week returns
\* current_week + 1 exactly when the instant the date stands for, read in the
\* configured timezone, is a Sunday whose hour is >= cutoff_hour, and
\* current_week otherwise.
C2_TargetWeekAtEveryInstant ==
    Called("get_target_week")
        => ret.week = IF LookAheadAt(InstantOf(call.date, call.t), call.cutoff)
                      THEN ret.current_week + 1
                      ELSE ret.current_week

\* C3: a scheduler call that passes no date decides the same whatever zone the
\* server's clock is in: the same week, and the same look-ahead.
C3_ServerZoneIndependent ==
    (spc = "called" /\ call.op # "get_matchup_for_week" /\ call.date = None)
        => \A z \in Zones :
            CASE call.op = "get_current_week" ->
                    get_current_week(call.cache0, call.flag, call.net, call.t, z).week = ret.week
              [] call.op = "get_target_week" ->
                    get_target_week(call.cache0, None, call.cutoff, call.flag, call.net,
                                    call.net2, call.t, tzConf, z).week = ret.week
              [] call.op = "get_optimal_matchup" ->
                    LET r == get_optimal_matchup(MyTeam, call.cache0, None, call.cutoff,
                                                 call.net, call.fetch, call.t, tzConf, z)
                    IN  r.look0 = ret.look0 /\ r.week = ret.week
              [] OTHER -> TRUE

\* C4: get_optimal_matchup returns without raising whatever the fetches do;
\* when neither the target week nor, under look-ahead, the fallback week is
\* fetchable the result has no matchup and a non-empty error; and every
\* result has exactly one of matchup and error.
C4_MatchupOrError ==
    Called("get_optimal_matchup")
        => /\ ~ ret.raised
           /\ (ret.matchup = None) # (ret.error = None)
           /\ ret.error # None => The(ret.error) # ""
           /\ (\A i \in 1..Len(ret.fetched) :
                   ~ Fetchable(IF ret.fetched[i] = ret.current_week + 1
                               THEN call.fetch.next ELSE call.fetch.cur))
                 => ret.matchup = None /\ ret.error # None

C4_BothWeeksUnfetchable ==
    /\ Called("get_optimal_matchup")
    /\ ret.look0
    /\ Len(ret.fetched) = 2
    /\ call.fetch.next.team = "exception"
    /\ call.fetch.cur.team = "exception"
    /\ ret.matchup = None
    /\ ret.error = Some("Could not fetch matchup data")

Consulted(tier) == \E i \in 1..Len(ret.reqs) : ret.reqs[i] = tier

\* C5 as stated: a tier is consulted only if every earlier tier was tried and
\* failed, and date arithmetic is reached only when all three network tiers
\* were tried and failed.
C5_EveryEarlierTierFailed ==
    Called("get_current_week")
        => /\ Consulted("team_matchups") => Consulted("team") /\ call.net.team.kind # "ok"
           /\ Consulted("league_scoreboard")
                 => Consulted("team_matchups") /\ call.net.matchups.kind # "ok"
           /\ ret.src = "date_math"
                 => /\ Consulted("team") /\ call.net.team.kind # "ok"
                    /\ Consulted("team_matchups") /\ call.net.matchups.kind # "ok"
                    /\ Consulted("league_scoreboard") /\ call.net.scoreboard.kind # "ok"

\* C5: get_current_week answers from its cache without a request; otherwise
\* it asks the team endpoint (unless use_roster_api is false), the team
\* matchups endpoint, the league scoreboard, in this order, each only if
\* every tier asked before it failed, and reaches the date arithmetic only
\* when every tier it asked failed; it always returns a week number.
C5_CascadeOrder ==
    Called("get_current_week")
        => /\ ret.reqs \in {<<>>, <<"team">>, <<"team", "team_matchups">>,
                            <<"team", "team_matchups", "league_scoreboard">>,
                            <<"team_matchups">>, <<"team_matchups", "league_scoreboard">>}
           /\ Consulted("team") <=> (call.cache0 = None /\ call.flag)
           /\ call.cache0 # None => ret.reqs = <<>> /\ ret.week = The(call.cache0)
           /\ Consulted("team_matchups")
                 => (Consulted("team") => call.net.team.kind # "ok")
           /\ Consulted("league_scoreboard")
                 => Consulted("team_matchups") /\ call.net.matchups.kind # "ok"
           /\ ret.src = "date_math"
                 => /\ Consulted("team") => call.net.team.kind # "ok"
                    /\ Consulted("team_matchups") /\ call.net.matchups.kind # "ok"
                    /\ Consulted("league_scoreboard") /\ call.net.scoreboard.kind # "ok"
           /\ ret.week \in Nat

C5_DateMathWithoutTeamTier ==
    /\ Called("get_current_week")
    /\ ~ call.flag
    /\ call.cache0 = None
    /\ ret.reqs = <<"team_matchups", "league_scoreboard">>
    /\ ret.src = "date_math"
    /\ ret.week \in 1..23

-----------------------------------------------------------------------------
(* One run of AIAnalyzer.analyze_with_api *)

MaxPlayers == 2
MaxMovesMade == 6

\* Rosters of up to MaxPlayers players, no player twice
Rosters ==
    UNION {{r \in [1..n -> 1..MaxPlayers] : \A i, j \in 1..n : i # j => r[i] # r[j]}
           : n \in 0..MaxPlayers}

RosterResps == {RosterFail} \cup {RosterOk(r) : r \in Rosters}

\* What an earlier run left in data/
Snapshot == [i \in 1..MaxPlayers |-> i]
StaleMatchup == [week |-> 1, games_per_team |-> FALSE]

PlayerResps == {RosterFail, RosterOk(<<>>), RosterOk(<<1>>)}

MatchupResps ==
    [kind : {"ok"}, opp : {"ok", "no_schedule", "exception"}]
        \cup [kind : {"none", "exception"}, opp : {"no_schedule"}]

MoveResps ==
    {[kind |-> "ok", value |-> v] : v \in 0..MaxMovesMade}
        \cup {[kind |-> k, value |-> 0] : k \in {"key_error", "exception", "non200", "missing"}}

Done(o) ==
    /\ outcome' = o
    /\ apc' = "done"

\* "if not self.is_api_available(): return None"
CheckClient ==
    /\ apc = "start"
    /\ step' = [op |-> "is_api_available"]
    /\ IF ~ client
       THEN Done(Returned(None)) /\ failed' = failed \cup {"client"}
       ELSE apc' = "roster" /\ UNCHANGED <<outcome, failed>>
    /\ UNCHANGED <<svars, evars, uvars, pending, client, fetchers, playersCache, disk, run, llmCalls>>

\* my_roster = self.fetch_live_roster(filter_dropped=True)
FetchLiveRoster ==
    /\ apc = "roster"
    /\ \E main \in RosterResps, today \in RosterResps, tomorrow \in RosterResps :
        LET r == fetch_live_roster(fetchers, TRUE, main, today, tomorrow, disk.roster)
        IN  /\ step' = [op |-> "fetch_live_roster", main |-> main, today |-> today,
                        tomorrow |-> tomorrow, file0 |-> disk.roster,
                        raised |-> r.raised, roster |-> r.roster, reqs |-> r.reqs]
            /\ pending' = IF "roster_today" \in Range(r.reqs)
                              /\ today.kind = "ok" /\ today.roster # <<>>
                              /\ tomorrow.kind = "ok" /\ tomorrow.roster # <<>>
                           THEN Range(today.roster) \ Range(tomorrow.roster)
                           ELSE {}
            /\ IF r.raised
               THEN /\ Done(Raised("FileNotFoundError"))
                    /\ failed' = failed \cup {"roster"}
                    /\ UNCHANGED <<run, disk>>
               ELSE /\ run' = [run EXCEPT !.my_roster = r.roster]
                    /\ disk' = [disk EXCEPT !.roster = r.file]
                    /\ apc' = "players"
                    /\ UNCHANGED <<outcome, failed>>
    /\ UNCHANGED <<svars, evars, uvars, client, fetchers, playersCache, llmCalls>>

\* available_players = self.fetch_live_available_players()
FetchLiveAvailablePlayers ==
    /\ apc = "players"
    /\ \E live \in PlayerResps :
        LET r == fetch_live_available_players(fetchers, playersCache, live, disk.players)
        IN  /\ step' = [op |-> "fetch_live_available_players", live |-> live,
                        cache0 |-> playersCache, file0 |-> disk.players,
                        raised |-> r.raised, players |-> r.players]
            /\ IF r.raised
               THEN /\ Done(Raised("FileNotFoundError"))
                    /\ failed' = failed \cup {"players"}
                    /\ UNCHANGED <<run, disk, playersCache>>
               ELSE /\ run' = [run EXCEPT !.available_players = r.players]
                    /\ disk' = [disk EXCEPT !.players = r.file]
                    /\ playersCache' = r.cache
                    /\ apc' = "week"
                    /\ UNCHANGED <<outcome, failed>>
    /\ UNCHANGED <<svars, evars, uvars, pending, client, fetchers, llmCalls>>

\* target_week = self._get_target_week(sunday_cutoff_hour=SUNDAY_CUTOFF_HOUR)
GetTargetWeek ==
    /\ apc = "week"
    /\ \E key \in {"ok", "fail"}, w \in 1..MaxWeek,
          wall \in {Instant(5, 21, 59), Instant(5, 22, 0)} :
        LET t == AtWall(wall, tzConf)
            r == _get_target_week(fetchers, key, weekCache, SUNDAY_CUTOFF_HOUR,
                                  NetUp(w), NetUp(w), t, tzConf, tzSrv)
        IN  /\ step' = [op |-> "_get_target_week", key |-> key, t |-> t,
                        raised |-> r.raised, week |-> r.week]
            /\ weekCache' = r.cache
            /\ IF r.raised
               THEN /\ Done(Raised(r.error))
                    /\ failed' = failed \cup {"target_week"}
                    /\ UNCHANGED run
               ELSE /\ run' = [run EXCEPT !.target_week = r.week]
                    /\ apc' = "matchup"
                    /\ UNCHANGED <<outcome, failed>>
    /\ UNCHANGED <<tzConf, tzSrv, spc, call, ret, evars, uvars, pending, client, fetchers, playersCache, disk,
                   llmCalls>>

\* matchup_data = self.fetch_live_matchup(target_week=target_week)
FetchLiveMatchup ==
    /\ apc = "matchup"
    /\ \E resp \in MatchupResps :
        LET r == fetch_live_matchup(fetchers, run.target_week, resp, disk.matchup)
        IN  /\ step' = [op |-> "fetch_live_matchup", resp |-> resp, file0 |-> disk.matchup,
                        matchup |-> r.matchup]
            /\ run' = [run EXCEPT !.matchup_data = r.matchup]
            /\ disk' = [disk EXCEPT !.matchup = r.file]
            /\ failed' = failed
                    \cup (IF resp.kind # "ok" THEN {"matchup"} ELSE {})
                    \cup (IF resp.kind = "ok" /\ resp.opp # "ok" THEN {"opponent"} ELSE {})
    /\ apc' = "moves"
    /\ UNCHANGED <<svars, evars, uvars, pending, client, fetchers, playersCache, llmCalls, outcome>>

\* moves_made, max_moves, moves_remaining = self._get_roster_moves_remaining(),
\* printed only
CheckRosterMoves ==
    /\ apc = "moves"
    /\ \E resp \in MoveResps :
        step' = [op |-> "_get_roster_moves_remaining", resp |-> resp,
                 moves |-> _get_roster_moves_remaining(fetchers, resp)]
    /\ apc' = "prompt"
    /\ UNCHANGED <<svars, evars, uvars, pending, client, fetchers, playersCache, disk, run, failed, llmCalls, outcome>>

\* prompt = self.build_optimized_prompt(...), then written to data/ai_prompt.txt
BuildPrompt ==
    /\ apc = "prompt"
    /\ \E resp \in MoveResps :
        LET prompt == build_optimized_prompt(fetchers, run.my_roster, run.available_players,
                                             run.matchup_data, resp)
        IN  /\ step' = [op |-> "build_optimized_prompt", resp |-> resp]
            /\ run' = [run EXCEPT !.prompt = Some(prompt)]
            /\ disk' = [disk EXCEPT !.prompt = Some(prompt)]
            /\ failed' = failed \cup (IF ~ fetchers \/ resp.kind # "ok" THEN {"moves"} ELSE {})
    /\ apc' = "llm"
    /\ UNCHANGED <<svars, evars, uvars, pending, client, fetchers, playersCache, llmCalls, outcome>>

\* try: call_claude_api, save_recommendations, return ai_response
\* except Exception: return None
CallClaude ==
    /\ apc = "llm"
    /\ \E resp \in {"ok", "error"} :
        LET r == call_claude_api(client, resp)
        IN  /\ step' = [op |-> "call_claude_api", resp |-> resp]
            /\ IF r.raised
               THEN /\ Done(Returned(None))
                    /\ failed' = failed \cup {"llm"}
                    /\ UNCHANGED disk
               ELSE /\ Done(Returned(Some(r.value)))
                    /\ disk' = [disk EXCEPT !.recs = Some(r.value)]
                    /\ UNCHANGED failed
    /\ llmCalls' = llmCalls + 1
    /\ UNCHANGED <<svars, evars, uvars, pending, client, fetchers, playersCache, run>>

\* An analyzer constructed with or without a language-model client and data
\* fetchers, over a data/ directory holding any of the snapshots
AnalyzerInit ==
    /\ tzConf = -8
    /\ tzSrv \in SrvZones
    /\ weekCache = None
    /\ spc = "idle"
    /\ call = NoCall
    /\ ret = NoCall
    /\ client \in BOOLEAN
    /\ fetchers \in BOOLEAN
    /\ playersCache \in {None, Some(<<2>>)}
    /\ disk \in [roster : {None, Some(Snapshot)}, players : {None, Some(Snapshot)},
                 matchup : {None, Some(StaleMatchup)}, prompt : {None}, recs : {None}]
    /\ apc = "start"
    /\ run = NoRun
    /\ step = NoStep
    /\ failed = {}
    /\ llmCalls = 0
    /\ outcome = Running
    /\ pending = {}
    /\ EvaluatorIdle
    /\ UtilsIdle

AnalyzerNext ==
    \/ CheckClient
    \/ FetchLiveRoster
    \/ FetchLiveAvailablePlayers
    \/ GetTargetWeek
    \/ FetchLiveMatchup
    \/ CheckRosterMoves
    \/ BuildPrompt
    \/ CallClaude

AnalyzerSpec == AnalyzerInit /\ [][AnalyzerNext]_vars

-----------------------------------------------------------------------------
(* Properties of the analysis run *)

\* The run stopped at the client check
NoClient == apc = "done" /\ step.op = "is_api_available"

\* The live roster fetch gave nothing and data/my_roster.json does not exist
RosterUnavailable ==
    /\ step.op = "fetch_live_roster"
    /\ ~ fetchers \/ step.main.kind # "ok" \/ step.main.roster = <<>>
    /\ step.file0 = None

\* Neither the cache nor the live fetch gave free agents and
\* data/healthy_players.json does not exist
PlayersUnavailable ==
    /\ step.op = "fetch_live_available_players"
    /\ \/ ~ fetchers
       \/ /\ step.cache0 = None
          /\ step.live.kind # "ok" \/ step.live.roster = <<>>
    /\ step.file0 = None

LanguageModelFailed == step.op = "call_claude_api" /\ step.resp = "error"

\* C6: in every fatal case (no client, roster unavailable, free agents
\* unavailable, language-model call failed) analyze_with_api returns None
\* without raising, and in the first three the language model was not called
\* and no recommendation file was written.
C6_FatalCasesReturnNone ==
    (NoClient \/ RosterUnavailable \/ PlayersUnavailable \/ LanguageModelFailed)
        => /\ outcome = Returned(None)
           /\ ~ LanguageModelFailed => llmCalls = 0 /\ disk.recs = None

\* C7: once the client, the roster and the free agents are there, the run
\* ends by returning, with the prompt file written and exactly one
\* language-model call, and the prompt lacks the section of whatever could
\* not be obtained (matchup data, roster moves).
C7_RunSurvivesMissingSections ==
    (apc = "done" /\ client /\ "roster" \notin failed /\ "players" \notin failed)
        => /\ outcome.kind = "returned"
           /\ disk.prompt # None
           /\ llmCalls = 1
           /\ "matchup" \in failed => The(disk.prompt).matchup = None
           /\ "moves" \in failed => The(disk.prompt).moves_line = None

C9_TaskInstructionByMovesRemaining ==
    step.op = "build_optimized_prompt"
        => LET prompt == The(run.prompt)
               known == fetchers /\ step.resp.kind = "ok"
               remaining == Max2(0, 4 - step.resp.value)
           IN  /\ prompt.task.n >= 0
               /\ known <=> prompt.task.kind # "3_to_5_moves"
               /\ known =>
                     /\ prompt.task.n = remaining
                     /\ remaining = 0 <=> prompt.task.kind = "no_moves_remaining"
                     /\ remaining = 1 <=> prompt.task.kind = "only_1_move"
                     /\ remaining >= 2 <=> prompt.task.kind = "up_to_n_moves"
                     /\ prompt.moves_line # None
                     /\ The(prompt.moves_line).moves_remaining = Some(remaining)

C9_MoreMovesMadeThanAllowed ==
    /\ step.op = "build_optimized_prompt"
    /\ fetchers
    /\ step.resp.kind = "ok"
    /\ step.resp.value > 4
    /\ The(run.prompt).task = [kind |-> "no_moves_remaining", n |-> 0]

-----------------------------------------------------------------------------
(* PlayerEvaluator.filter_and_rank on a list of players *)

MaxList == 3
MaxLimit == 3
DEFAULT_PLAYER_LIMIT == 25

\* Exactly 20.0 minutes and 8.0 points, strong in REB and AST
Boundary == Player("Boundary", Some(200), 80, 60, 40, 0, 0, 0, 0, 44, 79, 3, "SF")
\* The same player under another name: an equal final_score
Twin == [Boundary EXCEPT !.name = "Twin"]
\* The same player at 19.9 minutes
Short == [Boundary EXCEPT !.name = "Short", !.minutes = Some(199)]
\* No minutes recorded
Unknown == [Boundary EXCEPT !.name = "Unknown", !.minutes = None]
\* 7.9 points
LowScorer == Player("LowScorer", Some(300), 79, 60, 40, 10, 10, 15, 10, 50, 85, 4, "PG")
\* Strong in points only: 1.4 threes
OneCategory == Player("OneCategory", Some(300), 100, 59, 39, 9, 9, 14, 10, 50, 85, 4, "C")
Center == Player("Center", Some(320), 150, 100, 0, 0, 15, 0, 20, 55, 70, 4, "C")
Guard == Player("Guard", Some(340), 200, 40, 70, 15, 0, 25, 30, 46, 88, 4, "PG")

Pool == {Boundary, Twin, Short, Unknown, LowScorer, OneCategory, Center, Guard}

PlayerLists == UNION {[1..n -> Pool] : n \in 0..MaxList}

Limits == (0..MaxLimit) \cup {DEFAULT_PLAYER_LIMIT}

\* No scheduler call is under way
SchedulerIdle ==
    /\ tzConf = -8
    /\ tzSrv = 0
    /\ weekCache = None
    /\ spc = "idle"
    /\ call = NoCall
    /\ ret = NoCall

CallFilterAndRank ==
    /\ epc = "input"
    /\ ranked' = filter_and_rank(players, limit)
    /\ epc' = "ranked"
    /\ UNCHANGED <<svars, avars, uvars, players, limit>>

EvaluatorInit ==
    /\ SchedulerIdle
    /\ AnalyzerIdle
    /\ players \in PlayerLists
    /\ limit \in Limits
    /\ ranked = <<>>
    /\ epc = "input"
    /\ UtilsIdle

EvaluatorNext == CallFilterAndRank

EvaluatorSpec == EvaluatorInit /\ [][EvaluatorNext]_vars

-----------------------------------------------------------------------------
(* Properties of filter_and_rank *)

\* The hard filters: minutes present and >= 20, PTS >= 8, and at least two of
\* PTS >= 10, REB >= 6, AST >= 4, ST >= 1, BLK >= 1, 3PTM >= 1.5
HardFilters(p) ==
    /\ p.minutes # None
    /\ The(p.minutes) >= 200
    /\ p.PTS >= 80
    /\ \E a, b \in {"PTS", "REB", "AST", "ST", "BLK", "TPM"} :
          /\ a # b
          /\ \A c \in {a, b} :
                p[c] >= (CASE c = "PTS" -> 100 [] c = "REB" -> 60 [] c = "AST" -> 40
                           [] c = "ST" -> 10 [] c = "BLK" -> 10 [] c = "TPM" -> 15)

\* C10: for limit >= 0, filter_and_rank returns at most limit players, each
\* one of the given players and passing the hard filters (20.0 minutes with
\* 8.0 points passes, 19.9 minutes fails), in non-increasing final_score
\* order, and no player left out that passes the filters has a higher
\* final_score than a returned one.
C10_TopPassingPlayers ==
    epc = "ranked"
        => LET returned == {ranked[i].idx : i \in 1..Len(ranked)}
               omitted == {k \in 1..Len(players) : HardFilters(players[k]) /\ k \notin returned}
           IN  /\ Len(ranked) <= limit
               /\ Cardinality(returned) = Len(ranked)
               /\ \A i \in 1..Len(ranked) :
                     /\ ranked[i].idx \in 1..Len(players)
                     /\ ranked[i].player = players[ranked[i].idx]
                     /\ HardFilters(ranked[i].player)
                     /\ ranked[i].player.name \notin {"Short", "Unknown"}
               /\ \A i, j \in 1..Len(ranked) :
                     i < j => ranked[i].final_score >= ranked[j].final_score
               /\ \A k \in omitted, i \in 1..Len(ranked) :
                     evaluate_player(players[k]).final_score <= ranked[i].final_score
               /\ omitted # {} => Len(ranked) = limit
               /\ HardFilters(Boundary) /\ ~ HardFilters(Short)

C10_BoundaryPlayerRankedAndOneLeftOut ==
    /\ epc = "ranked"
    /\ limit = 2
    /\ Len(ranked) = 2
    /\ ranked[1].final_score > ranked[2].final_score
    /\ ranked[2].player = Boundary
    /\ \E k \in 1..Len(players) : players[k] = Twin

-----------------------------------------------------------------------------
(* PlayerEvaluator.calculate_games_multiplier on any quality and game count *)

\* Quality scores 0.0 .. MaxQuality / 10 in steps of 0.1; games -1 .. MaxGames
MaxQuality == 460
MaxGames == 7

Qualities == {[num |-> n, den |-> 10] : n \in 0..MaxQuality}
GameCounts == -1..MaxGames

WithGames(games) == [games_remaining |-> games]

CallGamesMultiplier ==
    /\ gm.pc = "input"
    /\ gm' = [gm EXCEPT !.pc = "returned",
                        !.result = calculate_games_multiplier(WithGames(gm.games), gm.quality)]
    /\ UNCHANGED <<svars, avars, evars, cmp, gaps, oa, sc, ya, rt, rl, pf, gs, cl, en, sf>>

MultiplierInit ==
    /\ SchedulerIdle
    /\ AnalyzerIdle
    /\ EvaluatorIdle
    /\ gm \in [pc : {"input"}, quality : Qualities, games : GameCounts, result : {0}]
    /\ cmp = Idle
    /\ gaps = Idle
    /\ oa = Idle
    /\ sc = Idle
    /\ ya = Idle
    /\ rt = Idle
    /\ rl = Idle
    /\ pf = Idle
    /\ gs = Idle
    /\ cl = Idle
    /\ en = Idle
    /\ sf = Idle

MultiplierNext == CallGamesMultiplier

MultiplierSpec == MultiplierInit /\ [][MultiplierNext]_vars

\* The multiplier, in twentieths, that the tiers prescribe for a quality in
\* tenths and a game count
TierMultiplier(q10, games) ==
    IF q10 < 300 THEN 20
    ELSE IF q10 < 450
    THEN (IF games <= 2 THEN 20 ELSE IF games = 3 THEN 21 ELSE 22)
    ELSE (IF games <= 2 THEN 20 ELSE IF games = 3 THEN 23
          ELSE Min2(26, 20 + (3 * (games - 2))))

\* C11: the games multiplier is 1.0 below quality 30 whatever the games; 1.0,
\* 1.05, 1.10 for <= 2, 3, >= 4 games in [30, 45); 1.0, 1.15 and
\* min(1.30, 1.0 + 0.15 (games - 2)) from 45 on; so it lies in [1.0, 1.30] and
\* one more game never lowers it.
C11_GamesMultiplierByTier ==
    gm.pc = "returned"
        => /\ gm.result = TierMultiplier(gm.quality.num, gm.games)
           /\ gm.result >= 20 /\ gm.result <= 26
           /\ calculate_games_multiplier(WithGames(gm.games + 1), gm.quality) >= gm.result

\* Quality 29.9 with 5 games left got exactly 1.0
C11_LowQualityManyGames ==
    /\ gm.pc = "returned"
    /\ gm.quality = [num |-> 299, den |-> 10]
    /\ gm.games = 5
    /\ gm.result = 20

-----------------------------------------------------------------------------
(* MatchupAnalyzer.compare_teams_with_live_stats *)

\* config.scoring.categories: the 9 categories in the order of the dict
Categories == <<"FG%", "FT%", "3PTM", "PTS", "REB", "AST", "ST", "BLK", "TO">>

stat_id(cat) ==
    CASE cat = "FG%" -> "5" [] cat = "FT%" -> "8" [] cat = "3PTM" -> "10"
      [] cat = "PTS" -> "12" [] cat = "REB" -> "15" [] cat = "AST" -> "16"
      [] cat = "ST" -> "17" [] cat = "BLK" -> "18" [] cat = "TO" -> "19"

higher_is_better(cat) == cat # "TO"

\* A value of a stats dict: a string that float() converts to the number n, a
\* string it rejects (as "-"), or no entry under the stat_id
Numeric(n) == [kind |-> "number", n |-> n]
Unparsable == [kind |-> "text", n |-> 0]
Absent == [kind |-> "absent", n |-> 0]

\* stats.get(stat_id, '0')
StatGet(stats, id) == IF stats[id].kind = "absent" THEN Numeric(0) ELSE stats[id]

\* float(my_value), float(opp_value) under one try: when either conversion
\* raises, both values become 0.0
ToFloats(my_value, opp_value) ==
    IF my_value.kind = "number" /\ opp_value.kind = "number"
    THEN [my |-> my_value.n, opp |-> opp_value.n]
    ELSE [my |-> 0, opp |-> 0]

category_status(cat, my_value, opp_value) ==
    LET f == ToFloats(my_value, opp_value)
    IN  IF f.my = f.opp THEN "TIED"
        ELSE IF higher_is_better(cat)
        THEN (IF f.my > f.opp THEN "WINNING" ELSE "LOSING")
        ELSE (IF f.my < f.opp THEN "WINNING" ELSE "LOSING")

compare_teams_with_live_stats(my_stats, opponent_stats) ==
    LET comparison == [cat \in Range(Categories) |->
            LET my_value == StatGet(my_stats, stat_id(cat))
                opp_value == StatGet(opponent_stats, stat_id(cat))
            IN  [my_value |-> my_value, opponent_value |-> opp_value,
                 status |-> category_status(cat, my_value, opp_value),
                 higher_is_better |-> higher_is_better(cat)]]
        Count(status) == Cardinality({cat \in Range(Categories) : comparison[cat].status = status})
    IN  [comparison |-> comparison, wins |-> Count("WINNING"), losses |-> Count("LOSING"),
         ties |-> Count("TIED")]

\* Stat values 0 .. MaxStat
MaxStat == 2

StatValues == {Numeric(n) : n \in 0..MaxStat} \cup {Unparsable, Absent}

StatIds == {stat_id(cat) : cat \in Range(Categories)}

\* A weekly stats dict: one value for FG%, one for TO, one for every other category
StatsDict(fg, to, other) ==
    [id \in StatIds |-> IF id = "5" THEN fg ELSE IF id = "19" THEN to ELSE other]

StatsDicts == {StatsDict(fg, to, other) : fg \in StatValues, to \in StatValues,
                                          other \in {Numeric(1), Absent}}

CallCompareTeams ==
    /\ cmp.pc = "input"
    /\ cmp' = [cmp EXCEPT !.pc = "returned",
                          !.ret = compare_teams_with_live_stats(cmp.my_stats, cmp.opponent_stats)]
    /\ UNCHANGED <<svars, avars, evars, gm, gaps, oa, sc, ya, rt, rl, pf, gs, cl, en, sf>>

CompareInit ==
    /\ SchedulerIdle
    /\ AnalyzerIdle
    /\ EvaluatorIdle
    /\ cmp \in [pc : {"input"}, my_stats : StatsDicts, opponent_stats : StatsDicts,
                ret : {Idle}]
    /\ gm = Idle
    /\ gaps = Idle
    /\ oa = Idle
    /\ sc = Idle
    /\ ya = Idle
    /\ rt = Idle
    /\ rl = Idle
    /\ pf = Idle
    /\ gs = Idle
    /\ cl = Idle
    /\ en = Idle
    /\ sf = Idle

CompareNext == CallCompareTeams

CompareSpec == CompareInit /\ [][CompareNext]_vars

\* The value a side's entry stands for: the number, 0.0 when absent or unparsable
ValueOf(v) == IF v.kind = "number" THEN v.n ELSE 0

\* C12: every category is TIED when the two sides' values are equal, else
\* WINNING when the user's value is higher (lower for TO), else LOSING; and
\* wins + losses + ties = 9.
C12_StatusByDirection ==
    cmp.pc = "returned"
        => /\ \A cat \in Range(Categories) :
                LET c == cmp.ret.comparison[cat]
                    my == ValueOf(c.my_value)
                    opp == ValueOf(c.opponent_value)
                IN  c.status = IF my = opp THEN "TIED"
                               ELSE IF (cat # "TO" /\ my > opp) \/ (cat = "TO" /\ my < opp)
                               THEN "WINNING"
                               ELSE "LOSING"
           /\ cmp.ret.wins + cmp.ret.losses + cmp.ret.ties = 9

-----------------------------------------------------------------------------
(* OpponentAnalyzer._calculate_category_gaps.  Team values are whole        *)
(* numbers; gap_pct, rounded to one decimal, is counted in tenths.          *)

\* A TO gap computed like every other category's
category_gap_unflipped(cat, my_val, opp_val) ==
    IF opp_val = 0
    THEN [my_value |-> my_val, opp_value |-> opp_val, gap_pct |-> 0, status |-> "UNKNOWN"]
    ELSE LET num == 100 * (my_val - opp_val)
         IN  [my_value |-> my_val, opp_value |-> opp_val,
              gap_pct |-> RoundDiv(10 * num, opp_val),
              status |-> IF num > 15 * opp_val THEN "DOMINATING"
                         ELSE IF num > 0 THEN "WINNING"
                         ELSE IF num > (-15) * opp_val THEN "COMPETITIVE"
                         ELSE "LOSING"]

\* One pass of the loop: gap_pct is num / opp_val before rounding
category_gap(cat, my_val, opp_val) ==
    IF opp_val = 0
    THEN [my_value |-> my_val, opp_value |-> opp_val, gap_pct |-> 0, status |-> "UNKNOWN"]
    ELSE LET num == IF cat = "TO" THEN 100 * (opp_val - my_val)
                    ELSE 100 * (my_val - opp_val)
         IN  [my_value |-> my_val, opp_value |-> opp_val,
              gap_pct |-> RoundDiv(10 * num, opp_val),
              status |-> IF num > 15 * opp_val THEN "DOMINATING"
                         ELSE IF num > 0 THEN "WINNING"
                         ELSE IF num > (-15) * opp_val THEN "COMPETITIVE"
                         ELSE "LOSING"]

_calculate_category_gaps(my_stats, opp_stats) ==
    [cat \in Range(Categories) |-> category_gap(cat, my_stats[cat], opp_stats[cat])]

\* Team values 0 .. MaxTeamValue
MaxTeamValue == 60

\* Team stats with the same value in every category
TeamStats(v) == [cat \in Range(Categories) |-> v]

CallCalculateCategoryGaps ==
    /\ gaps.pc = "input"
    /\ gaps' = [gaps EXCEPT !.pc = "returned",
                            !.ret = _calculate_category_gaps(TeamStats(gaps.my),
                                                             TeamStats(gaps.opp))]
    /\ UNCHANGED <<svars, avars, evars, gm, cmp, oa, sc, ya, rt, rl, pf, gs, cl, en, sf>>

GapsInit ==
    /\ SchedulerIdle
    /\ AnalyzerIdle
    /\ EvaluatorIdle
    /\ gaps \in [pc : {"input"}, my : 0..MaxTeamValue, opp : 0..MaxTeamValue, ret : {Idle}]
    /\ gm = Idle
    /\ cmp = Idle
    /\ oa = Idle
    /\ sc = Idle
    /\ ya = Idle
    /\ rt = Idle
    /\ rl = Idle
    /\ pf = Idle
    /\ gs = Idle
    /\ cl = Idle
    /\ en = Idle
    /\ sf = Idle

GapsNext == CallCalculateCategoryGaps

GapsSpec == GapsInit /\ [][GapsNext]_vars

\* C13: with an opponent value of 0 the gap is 0.0 and the status UNKNOWN;
\* otherwise the gap is (my - opp) / opp x 100, and (opp - my) / opp x 100 for
\* TO, to one decimal, so a positive gap means the user is ahead.
C13_GapSignAndZeroOpponent ==
    gaps.pc = "returned"
        => \A cat \in Range(Categories) :
            LET g == gaps.ret[cat]
            IN  IF gaps.opp = 0
                THEN g.gap_pct = 0 /\ g.status = "UNKNOWN"
                ELSE /\ g.gap_pct = IF cat = "TO"
                                    THEN RoundDiv(1000 * (gaps.opp - gaps.my), gaps.opp)
                                    ELSE RoundDiv(1000 * (gaps.my - gaps.opp), gaps.opp)
                     /\ g.gap_pct > 0 => IF cat = "TO" THEN gaps.my < gaps.opp
                                         ELSE gaps.my > gaps.opp

\* my = 55 against opp = 60: +8.3 for TO, -8.3 for the others
C13_FiftyFiveAgainstSixty ==
    /\ gaps.pc = "returned"
    /\ gaps.my = 55 /\ gaps.opp = 60
    /\ gaps.ret["TO"].gap_pct = 83
    /\ \A cat \in Range(Categories) \ {"TO"} : gaps.ret[cat].gap_pct = -83

-----------------------------------------------------------------------------
(* OpponentAnalyzer.analyze_matchup.  A roster is a list of players, each   *)
(* with an injury flag and one stat value standing for all its stats; a     *)
(* stat value that is no number makes the aggregation raise.                *)

RosterPlayer(injured, value) == [injured |-> injured, value |-> value]

\* The roster request's answer: a payload with players, one without, a
\* status other than 200, or an exception (transport, JSON, payload shape)
RosterPayload(roster) == [kind |-> "ok", roster |-> roster]
RosterAnswerFail(k) == [kind |-> k, roster |-> <<>>]

\* The roster request with its exceptions let through
_fetch_opponent_roster_uncaught(team_key, resp) ==
    IF resp.kind = "exception"
    THEN [raised |-> TRUE, roster |-> None, reqs |-> <<"opponent_roster">>]
    ELSE IF resp.kind = "non200"
    THEN [raised |-> FALSE, roster |-> None, reqs |-> <<"opponent_roster">>]
    ELSE [raised |-> FALSE, reqs |-> <<"opponent_roster">>,
          roster |-> IF resp.roster # <<>> THEN Some(resp.roster) ELSE None]

_fetch_opponent_roster(team_key, resp) ==
    IF resp.kind = "exception"
    THEN [raised |-> FALSE, roster |-> None, reqs |-> <<"opponent_roster">>]
    ELSE IF resp.kind = "non200"
    THEN [raised |-> FALSE, roster |-> None, reqs |-> <<"opponent_roster">>]
    ELSE [raised |-> FALSE, reqs |-> <<"opponent_roster">>,
          roster |-> IF resp.roster # <<>> THEN Some(resp.roster) ELSE None]

\* safe_api_call around the schedule fetch: an exception becomes None; a fresh
\* cache entry answers without a request
_get_games_per_team(sched) ==
    IF sched = "cached" THEN [games |-> Some(4), reqs |-> <<>>]
    ELSE IF sched = "ok" THEN [games |-> Some(4), reqs |-> <<"schedule">>]
    ELSE [games |-> None, reqs |-> <<"schedule">>]

\* Injured players are skipped before their stats are read
RECURSIVE SumActive(_)
SumActive(roster) ==
    IF roster = <<>> THEN 0
    ELSE (IF Head(roster).injured THEN 0 ELSE Head(roster).value.n) + SumActive(Tail(roster))

_get_team_stats(roster) ==
    IF \E i \in 1..Len(roster) : ~ roster[i].injured /\ roster[i].value.kind # "number"
    THEN [raised |-> TRUE, stats |-> TeamStats(0)]
    ELSE [raised |-> FALSE, stats |-> TeamStats(SumActive(roster))]

\* gap_pct in tenths against the thresholds 15.0 and -15.0
_classify_categories(category_gaps) ==
    [cat \in Range(Categories) |->
        LET gap == category_gaps[cat].gap_pct
        IN  IF gap >= 150 THEN "dominating"
            ELSE IF gap >= 0 /\ gap < 150 THEN "winnable"
            ELSE IF gap < 0 /\ gap > -150 THEN "competitive"
            ELSE "losing"]

ErrorResult(msg, reqs) ==
    [raised |-> FALSE, error |-> Some(msg), classification |-> None, reqs |-> reqs,
     my_projections |-> None, keys |-> ErrorKeys]

\* my_roster is Optional (None when the caller has none); with_dates: both
\* week_start and week_end are given
analyze_matchup(my_roster, opponent_team_key, with_dates, resp, sched) ==
    IF my_roster = None \/ The(my_roster) = <<>>
    THEN ErrorResult("Empty roster provided", <<>>)
    ELSE IF opponent_team_key = ""
    THEN ErrorResult("No opponent team key provided", <<>>)
    ELSE The({
        IF fetched.raised
        THEN [raised |-> TRUE, error |-> None, classification |-> None, reqs |-> fetched.reqs,
              my_projections |-> None, keys |-> {}]
        ELSE IF fetched.roster = None
        THEN ErrorResult("Could not fetch opponent roster", fetched.reqs)
        ELSE The({
            IF mine.raised \/ theirs.raised
            THEN ErrorResult("Error calculating team stats", fetched.reqs \o schedule.reqs)
            ELSE [raised |-> FALSE, error |-> None, reqs |-> fetched.reqs \o schedule.reqs,
                  my_projections |-> Some(mine.stats), keys |-> AnalysisKeys,
                  classification |->
                      Some(_classify_categories(
                          _calculate_category_gaps(mine.stats, theirs.stats)))]
            : mine \in {_get_team_stats(The(my_roster))},
              theirs \in {_get_team_stats(The(fetched.roster))},
              schedule \in {IF with_dates THEN _get_games_per_team(sched)
                            ELSE [games |-> None, reqs |-> <<>>]}})
        : fetched \in {_fetch_opponent_roster(opponent_team_key, resp)}})

\* Rosters of up to MaxRoster players
MaxRoster == 2

RosterPlayers ==
    {RosterPlayer(FALSE, Numeric(1)), RosterPlayer(FALSE, Numeric(2)),
     RosterPlayer(TRUE, Unparsable), RosterPlayer(FALSE, Unparsable)}

MyRosters == {None} \cup {Some(r) : r \in UNION {[1..n -> RosterPlayers] : n \in 0..MaxRoster}}

\* The platform's players have parsed stats
OpponentRosters ==
    UNION {[1..n -> {RosterPlayer(FALSE, Numeric(2)), RosterPlayer(TRUE, Numeric(1))}]
           : n \in 0..MaxRoster}

RosterAnswers ==
    {RosterPayload(r) : r \in OpponentRosters}
        \cup {RosterAnswerFail("non200"), RosterAnswerFail("exception")}

ScheduleAnswers == {"ok", "cached", "empty", "exception"}

CallAnalyzeMatchup ==
    /\ oa.pc = "input"
    /\ oa' = [oa EXCEPT !.pc = "returned",
                        !.ret = analyze_matchup(oa.my_roster, oa.opponent_team_key,
                                                oa.with_dates, oa.resp, oa.sched)]
    /\ UNCHANGED <<svars, avars, evars, gm, cmp, gaps, sc, ya, rt, rl, pf, gs, cl, en, sf>>

OpponentInit ==
    /\ SchedulerIdle
    /\ AnalyzerIdle
    /\ EvaluatorIdle
    /\ oa \in [pc : {"input"}, my_roster : MyRosters, opponent_team_key : {"", OppTeam},
                with_dates : BOOLEAN, resp : RosterAnswers, sched : ScheduleAnswers,
                ret : {Idle}]
    /\ gm = Idle
    /\ cmp = Idle
    /\ gaps = Idle
    /\ sc = Idle
    /\ ya = Idle
    /\ rt = Idle
    /\ rl = Idle
    /\ pf = Idle
    /\ gs = Idle
    /\ cl = Idle
    /\ en = Idle
    /\ sf = Idle

OpponentNext == CallAnalyzeMatchup

OpponentSpec == OpponentInit /\ [][OpponentNext]_vars

\* The aggregation of a roster fails: a player that is not injured has a stat
\* that is no number
AggregationFails(roster) ==
    \E i \in 1..Len(roster) : ~ roster[i].injured /\ roster[i].value.kind # "number"

\* C14: analyze_matchup never raises; an empty or absent roster, an empty
\* opponent key, an unfetchable opponent roster or a failing aggregation give
\* a result with an error and no classification; and the first two do so
\* before any request is made.
C14_ErrorsAsData ==
    oa.pc = "returned"
        => LET r == oa.ret
               no_roster == oa.my_roster = None \/ The(oa.my_roster) = <<>>
               no_key == oa.opponent_team_key = ""
               unfetchable == oa.resp.kind # "ok" \/ oa.resp.roster = <<>>
               bad_stats == \/ AggregationFails(The(oa.my_roster))
                            \/ AggregationFails(oa.resp.roster)
           IN  /\ ~ r.raised
               /\ (no_roster \/ no_key) => r.reqs = <<>>
               /\ (no_roster \/ no_key \/ unfetchable \/ bad_stats)
                    <=> (r.error # None /\ r.classification = None)
               /\ r.error = None <=> r.classification # None

\* The opponent's roster request raised, with a roster and a key given
C14_RosterRequestRaised ==
    /\ oa.pc = "returned"
    /\ oa.my_roster # None /\ oa.my_roster # Some(<<>>)
    /\ oa.opponent_team_key # ""
    /\ oa.resp.kind = "exception"
    /\ oa.ret.error = Some("Could not fetch opponent roster")
    /\ oa.ret.reqs = <<"opponent_roster">>

-----------------------------------------------------------------------------
(* util.SimpleCache.  Time is counted in whole seconds.  A cache file is    *)
(* missing, holds an entry {timestamp, value}, or holds text json.load      *)
(* rejects.                                                                 *)

Missing == [kind |-> "missing", timestamp |-> 0, value |-> 0]
Entry(timestamp, value) == [kind |-> "entry", timestamp |-> timestamp, value |-> value]
Corrupt == [kind |-> "corrupt", timestamp |-> 0, value |-> 0]

\* An entry that expires as soon as its age reaches max_age_seconds
cache_get_strict(files, key, max_age_seconds, now) ==
    IF files[key].kind = "missing" THEN None
    ELSE IF files[key].kind = "corrupt" THEN None
    ELSE IF now - files[key].timestamp >= max_age_seconds THEN None
    ELSE Some(files[key].value)

\* SimpleCache.get: None is the absent entry
cache_get(files, key, max_age_seconds, now) ==
    IF files[key].kind = "missing" THEN None
    ELSE IF files[key].kind = "corrupt" THEN None
    ELSE IF now - files[key].timestamp > max_age_seconds THEN None
    ELSE Some(files[key].value)

\* SimpleCache.set
cache_set(files, key, value, now) == [files EXCEPT ![key] = Entry(now, value)]

\* SimpleCache.clear: one key, or every file when key is None
cache_clear(files, key) ==
    IF key # None THEN [files EXCEPT ![The(key)] = Missing]
    ELSE [k \in DOMAIN files |-> Missing]

\* The clock runs 0 .. MaxTime
MaxTime == 3

CacheKeys == {"nba_schedule", "available_players"}
CacheValues == {1, 2}
MaxAges == {0, 1, 2}

NoOp == [op |-> "none", key |-> "", max_age_seconds |-> 0, result |-> None]

Tick ==
    /\ sc.pc = "ready"
    /\ sc.now < MaxTime
    /\ sc' = [sc EXCEPT !.now = sc.now + 1, !.last = NoOp]
    /\ UNCHANGED <<svars, avars, evars, gm, cmp, gaps, oa, ya, rt, rl, pf, gs, cl, en, sf>>

CacheSet ==
    /\ sc.pc = "ready"
    /\ \E key \in CacheKeys, value \in CacheValues :
        sc' = [sc EXCEPT !.files = cache_set(sc.files, key, value, sc.now),
                         !.latest = [sc.latest EXCEPT ![key] = Entry(sc.now, value)],
                         !.last = [op |-> "set", key |-> key, max_age_seconds |-> 0,
                                   result |-> None]]
    /\ UNCHANGED <<svars, avars, evars, gm, cmp, gaps, oa, ya, rt, rl, pf, gs, cl, en, sf>>

CacheGet ==
    /\ sc.pc = "ready"
    /\ \E key \in CacheKeys, max_age_seconds \in MaxAges :
        sc' = [sc EXCEPT !.last = [op |-> "get", key |-> key,
                                   max_age_seconds |-> max_age_seconds,
                                   result |-> cache_get(sc.files, key, max_age_seconds,
                                                        sc.now)]]
    /\ UNCHANGED <<svars, avars, evars, gm, cmp, gaps, oa, ya, rt, rl, pf, gs, cl, en, sf>>

CacheClearKey ==
    /\ sc.pc = "ready"
    /\ \E key \in CacheKeys :
        sc' = [sc EXCEPT !.files = cache_clear(sc.files, Some(key)),
                         !.latest = [sc.latest EXCEPT ![key] = Missing],
                         !.last = [op |-> "clear", key |-> key, max_age_seconds |-> 0,
                                   result |-> None]]
    /\ UNCHANGED <<svars, avars, evars, gm, cmp, gaps, oa, ya, rt, rl, pf, gs, cl, en, sf>>

CacheClearAll ==
    /\ sc.pc = "ready"
    /\ sc' = [sc EXCEPT !.files = cache_clear(sc.files, None),
                        !.latest = [k \in CacheKeys |-> Missing],
                        !.last = [op |-> "clear", key |-> "", max_age_seconds |-> 0,
                                  result |-> None]]
    /\ UNCHANGED <<svars, avars, evars, gm, cmp, gaps, oa, ya, rt, rl, pf, gs, cl, en, sf>>

\* A cache file is left with text that does not parse (an interrupted write)
CacheFileDamaged ==
    /\ sc.pc = "ready"
    /\ \E key \in CacheKeys :
        /\ sc.files[key].kind = "entry"
        /\ sc' = [sc EXCEPT !.files = [sc.files EXCEPT ![key] = Corrupt], !.last = NoOp]
    /\ UNCHANGED <<svars, avars, evars, gm, cmp, gaps, oa, ya, rt, rl, pf, gs, cl, en, sf>>

CacheInit ==
    /\ SchedulerIdle
    /\ AnalyzerIdle
    /\ EvaluatorIdle
    /\ sc = [pc |-> "ready", now |-> 0, files |-> [k \in CacheKeys |-> Missing],
             latest |-> [k \in CacheKeys |-> Missing], last |-> NoOp]
    /\ gm = Idle
    /\ cmp = Idle
    /\ gaps = Idle
    /\ oa = Idle
    /\ ya = Idle
    /\ rt = Idle
    /\ rl = Idle
    /\ pf = Idle
    /\ gs = Idle
    /\ cl = Idle
    /\ en = Idle
    /\ sf = Idle

CacheNext ==
    \/ Tick
    \/ CacheSet
    \/ CacheGet
    \/ CacheClearKey
    \/ CacheClearAll
    \/ CacheFileDamaged

CacheSpec == CacheInit /\ [][CacheNext]_vars

\* The last operation was a get of a key whose file is as the program left it
GotIntact == sc.pc = "ready" /\ sc.last.op = "get" /\ sc.files[sc.last.key].kind # "corrupt"

\* C15 as stated: get returns the value of the latest set exactly when
\* now - timestamp < max_age_seconds, and nothing otherwise or after a clear.
C15_FreshBelowMaxAge ==
    GotIntact
        => LET e == sc.latest[sc.last.key]
           IN  sc.last.result =
                   IF e.kind = "entry" /\ sc.now - e.timestamp < sc.last.max_age_seconds
                   THEN Some(e.value) ELSE None

\* C15: get returns the value of the latest set exactly when
\* now - timestamp <= max_age_seconds, and nothing otherwise or after a clear.
C15_FreshUpToMaxAge ==
    GotIntact
        => LET e == sc.latest[sc.last.key]
           IN  sc.last.result =
                   IF e.kind = "entry" /\ sc.now - e.timestamp <= sc.last.max_age_seconds
                   THEN Some(e.value) ELSE None

\* An entry read when its age is exactly max_age_seconds, with a value returned
C15_ReadAtExactlyMaxAge ==
    /\ GotIntact
    /\ sc.latest[sc.last.key].kind = "entry"
    /\ sc.last.max_age_seconds > 0
    /\ sc.now - sc.latest[sc.last.key].timestamp = sc.last.max_age_seconds
    /\ sc.last.result = Some(sc.latest[sc.last.key].value)

-----------------------------------------------------------------------------
(* auth.YahooAuth.__init__ from an existing token file, followed by the     *)
(* construction of a MatchupScheduler on it.  Each request the constructor  *)
(* makes is one step; the platform's answer is chosen at that step.         *)

CACHE_MAX_AGE == 86400

\* datetime.now().timestamp() at construction
Now == 100000

Token(access_token, refresh_token) ==
    [access_token |-> access_token, refresh_token |-> refresh_token]

AccessTokens == {"A1", "A2"}
RefreshTokens == {"R1", "R2"}
TokenFiles == { Token(a, r) : a \in {"A1"}, r \in {"R1"} }

\* A JSON cache file: missing, an object {timestamp, payload}, or unparsable
NoCacheFile == [kind |-> "missing", timestamp |-> 0, payload |-> {}]
DamagedCacheFile == [kind |-> "corrupt", timestamp |-> 0, payload |-> {}]
CacheFiles ==
    {NoCacheFile, DamagedCacheFile}
        \cup { [kind |-> "entry", timestamp |-> t, payload |-> p] :
                 t \in {Now - CACHE_MAX_AGE, Now - CACHE_MAX_AGE + 1},
                 p \in {{"428.l.1"}} }

\* MatchupScheduler._load_cache: the parse runs inside try/except
_load_cache(file, now) ==
    [raised |-> FALSE,
     value |-> IF file.kind = "entry" /\ file.timestamp > now - CACHE_MAX_AGE
               THEN file.payload ELSE {}]

\* YahooAuth._load_league_cache: json.load runs outside any try
_load_league_cache(file, now) ==
    [raised |-> file.kind = "corrupt",
     value |-> IF file.kind = "entry" /\ file.timestamp > now - CACHE_MAX_AGE
               THEN file.payload ELSE {}]

\* Answers to the get_token_info probe and to the get_token refresh
ProbeAnswers == {"200", "401", "timeout"}
RefreshAnswers ==
    { [status |-> "200", access_token |-> Some(a), refresh_token |-> r] :
        a \in AccessTokens, r \in {None} \cup { Some(x) : x \in RefreshTokens } }
      \cup { [status |-> s, access_token |-> None, refresh_token |-> None] :
               s \in {"200", "400", "timeout"} }

\* YahooAuth._is_token_valid
_is_token_valid(probe) == probe = "200"

\* A refresh that updates the session and forgets to save the token file
_refresh_token_unsaved(self, answer) ==
    IF answer.status = "200" /\ answer.access_token # None
    THEN [self EXCEPT !.access_token = The(answer.access_token),
                      !.refresh_token = IF answer.refresh_token # None
                                        THEN The(answer.refresh_token) ELSE @,
                      !.header = The(answer.access_token),
                      !.pc = "token_done"]
    ELSE [self EXCEPT !.pc = "raised", !.raised_in = "_refresh_token"]

\* YahooAuth._refresh_token and _save_token
_refresh_token(self, answer) ==
    IF answer.status = "200" /\ answer.access_token # None
    THEN LET refresh_token == IF answer.refresh_token # None
                              THEN The(answer.refresh_token) ELSE self.refresh_token
         IN  [self EXCEPT !.access_token = The(answer.access_token),
                          !.refresh_token = refresh_token,
                          !.header = The(answer.access_token),
                          !.token_file = Token(The(answer.access_token), refresh_token),
                          !.writes = @ + 1,
                          !.pc = "token_done"]
    ELSE [self EXCEPT !.pc = "raised", !.raised_in = "_refresh_token"]

\* _load_token, lines 29-33: read the file into memory and the session header
LoadToken ==
    /\ ya.pc = "start"
    /\ ya' = [ya EXCEPT !.access_token = ya.token_file.access_token,
                        !.refresh_token = ya.token_file.refresh_token,
                        !.header = ya.token_file.access_token,
                        !.pc = "loaded"]
    /\ UNCHANGED <<svars, avars, evars, gm, cmp, gaps, oa, sc, rt, rl, pf, gs, cl, en, sf>>

\* _load_token, line 34: the probe request
ProbeToken ==
    /\ ya.pc = "loaded"
    /\ \E probe \in ProbeAnswers :
        ya' = [ya EXCEPT !.probe = probe,
                         !.pc = IF _is_token_valid(probe) THEN "token_done" ELSE "refresh"]
    /\ UNCHANGED <<svars, avars, evars, gm, cmp, gaps, oa, sc, rt, rl, pf, gs, cl, en, sf>>

\* _load_token, line 35: the refresh request
RefreshToken ==
    /\ ya.pc = "refresh"
    /\ \E answer \in RefreshAnswers :
        ya' = _refresh_token([ya EXCEPT !.refreshes = @ + 1, !.answer = answer], answer)
    /\ UNCHANGED <<svars, avars, evars, gm, cmp, gaps, oa, sc, rt, rl, pf, gs, cl, en, sf>>

\* __init__, line 24
LoadLeagueCache ==
    /\ ya.pc = "token_done"
    /\ LET r == _load_league_cache(ya.league_cache_file, Now)
       IN  ya' = IF r.raised
                 THEN [ya EXCEPT !.pc = "raised", !.raised_in = "_load_league_cache"]
                 ELSE [ya EXCEPT !.pc = "constructed", !.league_cache = r.value]
    /\ UNCHANGED <<svars, avars, evars, gm, cmp, gaps, oa, sc, rt, rl, pf, gs, cl, en, sf>>

\* MatchupScheduler.__init__ on the constructed client
ConstructScheduler ==
    /\ ya.pc = "constructed"
    /\ LET r == _load_cache(ya.cache_file, Now)
       IN  ya' = IF r.raised
                 THEN [ya EXCEPT !.pc = "raised", !.raised_in = "_load_cache"]
                 ELSE [ya EXCEPT !.pc = "scheduler", !.schedule_cache = r.value]
    /\ UNCHANGED <<svars, avars, evars, gm, cmp, gaps, oa, sc, rt, rl, pf, gs, cl, en, sf>>

AuthInit ==
    /\ SchedulerIdle
    /\ AnalyzerIdle
    /\ EvaluatorIdle
    /\ ya \in [pc : {"start"},
               token_file : TokenFiles, stored : TokenFiles,
               league_cache_file : CacheFiles, cache_file : CacheFiles,
               access_token : {""}, refresh_token : {""}, header : {""},
               league_cache : {{}}, schedule_cache : {{}},
               probe : {""}, answer : {[status |-> "", access_token |-> None,
                                        refresh_token |-> None]},
               refreshes : {0}, writes : {0}, raised_in : {""}]
    /\ ya.stored = ya.token_file
    /\ gm = Idle
    /\ cmp = Idle
    /\ gaps = Idle
    /\ oa = Idle
    /\ sc = Idle
    /\ rt = Idle
    /\ rl = Idle
    /\ pf = Idle
    /\ gs = Idle
    /\ cl = Idle
    /\ en = Idle
    /\ sf = Idle

AuthNext ==
    \/ LoadToken
    \/ ProbeToken
    \/ RefreshToken
    \/ LoadLeagueCache
    \/ ConstructScheduler

AuthSpec == AuthInit /\ [][AuthNext]_vars

\* C16: a cache file that cannot be parsed is read as a missing one: the
\* constructor that consulted it does not raise and holds no cached value.
C16_DamagedCacheReadAsMissing ==
    /\ (ya.pc # "idle" /\ ya.league_cache_file.kind = "corrupt")
           => /\ ya.raised_in # "_load_league_cache"
              /\ ya.league_cache = {}
    /\ (ya.pc # "idle" /\ ya.cache_file.kind = "corrupt")
           => /\ ya.raised_in # "_load_cache"
              /\ ya.schedule_cache = {}


\* The token phase of the constructor has ended without an error
TokenLoaded ==
    \/ ya.pc \in {"token_done", "constructed", "scheduler"}
    \/ ya.pc = "raised" /\ ya.raised_in # "_refresh_token"

\* The refresh request was answered with a new access token
RefreshSucceeded == ya.answer.status = "200" /\ ya.answer.access_token # None

\* C19: after the bootstrap from a token file the header, the in-memory token
\* and the file hold one access token; a valid stored token rewrites nothing;
\* an invalid one causes exactly one refresh, whose success replaces the
\* access token everywhere and the refresh token only when a new one came
\* back, and whose failure raises and leaves the token file as it was.
C19_TokenAgreesEverywhere ==
    /\ ya.pc # "idle" => ya.refreshes <= 1
    /\ TokenLoaded
           => /\ ya.header = ya.access_token
              /\ ya.token_file.access_token = ya.access_token
              /\ ya.token_file.refresh_token = ya.refresh_token
    /\ (TokenLoaded /\ _is_token_valid(ya.probe))
           => /\ ya.refreshes = 0
              /\ ya.writes = 0
              /\ ya.token_file = ya.stored
    /\ (TokenLoaded /\ ~_is_token_valid(ya.probe))
           => /\ ya.refreshes = 1
              /\ RefreshSucceeded
              /\ ya.access_token = The(ya.answer.access_token)
              /\ ya.refresh_token = IF ya.answer.refresh_token # None
                                    THEN The(ya.answer.refresh_token)
                                    ELSE ya.stored.refresh_token
    /\ (ya.pc # "idle" /\ ya.refreshes = 1 /\ ~RefreshSucceeded)
           => /\ ya.pc = "raised"
              /\ ya.raised_in = "_refresh_token"
              /\ ya.writes = 0
              /\ ya.token_file = ya.stored

\* A stored token the probe rejected, refreshed to a new access token with no
\* new refresh token in the answer
C19_RefreshedWithoutNewRefreshToken ==
    /\ ya.pc = "token_done"
    /\ ya.probe = "401"
    /\ ya.answer.refresh_token = None
    /\ ya.access_token # ya.stored.access_token
    /\ ya.refresh_token = ya.stored.refresh_token

-----------------------------------------------------------------------------
(* util.retry_on_failure.  One call of the wrapper; every invocation of the *)
(* wrapped function and every sleep is one step.  Delays are whole units.   *)

MaxRetries == 3
MaxDelay == 2

\* What one invocation of the wrapped function does
Returns(value) == [ok |-> TRUE, value |-> value, exception |-> ""]
Raises(exception) == [ok |-> FALSE, value |-> 0, exception |-> exception]
Outcomes == { Returns(v) : v \in {1, 2} } \cup { Raises(e) : e \in {"Timeout", "HTTPError"} }

\* A wait of the same length after every failure
backoff_constant(delay_seconds, attempt) == delay_seconds

\* line 122: time.sleep(delay_seconds * (attempt + 1))
backoff(delay_seconds, attempt) == delay_seconds * (attempt + 1)

\* lines 117-121: func(*args, **kwargs) inside try/except
Invoke ==
    /\ rt.pc = "attempt"
    /\ \E o \in Outcomes :
        rt' = IF o.ok
              THEN [rt EXCEPT !.outcomes = Append(@, o), !.pc = "returned",
                              !.result = Some(o.value)]
              ELSE [rt EXCEPT !.outcomes = Append(@, o),
                              !.last_exception = o.exception,
                              !.pc = IF rt.attempt < rt.max_retries - 1
                                     THEN "sleep" ELSE "raised"]
    /\ UNCHANGED <<svars, avars, evars, gm, cmp, gaps, oa, sc, ya, rl, pf, gs, cl, en, sf>>

\* line 122, then the next iteration of the loop
Sleep ==
    /\ rt.pc = "sleep"
    /\ rt' = [rt EXCEPT !.sleeps = Append(@, backoff(rt.delay_seconds, rt.attempt)),
                        !.attempt = @ + 1,
                        !.pc = "attempt"]
    /\ UNCHANGED <<svars, avars, evars, gm, cmp, gaps, oa, sc, ya, rl, pf, gs, cl, en, sf>>

RetryInit ==
    /\ SchedulerIdle
    /\ AnalyzerIdle
    /\ EvaluatorIdle
    /\ rt \in [pc : {"attempt"}, max_retries : 1..MaxRetries, delay_seconds : 0..MaxDelay,
               attempt : {0}, outcomes : {<<>>}, sleeps : {<<>>},
               last_exception : {""}, result : {None}]
    /\ gm = Idle
    /\ cmp = Idle
    /\ gaps = Idle
    /\ oa = Idle
    /\ sc = Idle
    /\ ya = Idle
    /\ rl = Idle
    /\ pf = Idle
    /\ gs = Idle
    /\ cl = Idle
    /\ en = Idle
    /\ sf = Idle

RetryNext ==
    \/ Invoke
    \/ Sleep

RetrySpec == RetryInit /\ [][RetryNext]_vars

-----------------------------------------------------------------------------
(* util.RateLimiter.  Time is counted in tenths of a second, the unit of    *)
(* the 0.1 s the limiter adds to its wait.                                  *)

MaxCalls == 2
MaxClock == 25

Tenths(seconds) == seconds * 10

\* lines 158-159: the recorded calls still inside the window
Prune(calls, now, period) == SelectSeq(calls, LAMBDA call_time : now - call_time < period)

\* line 164: period_seconds - (now - self.calls[0]) + 0.1
wait_time(calls, now, period) == period - (now - calls[1]) + 1

\* The last n entries of a sequence
LastN(s, n) == IF Len(s) <= n THEN s ELSE SubSeq(s, Len(s) - n + 1, Len(s))

\* RateLimiter.wait_if_needed, from entry to return; the sleep moves the clock
wait_if_needed ==
    /\ rl.pc = "ready"
    /\ LET now == rl.clock
           period == Tenths(rl.period_seconds)
           kept == Prune(rl.calls, now, period)
           full == Len(kept) >= rl.max_calls
           slept == IF full /\ wait_time(kept, now, period) > 0
                    THEN wait_time(kept, now, period) ELSE 0
           calls == IF slept > 0 THEN <<>> ELSE kept
       IN  /\ now + slept <= MaxClock
           /\ rl' = [rl EXCEPT !.clock = now + slept,
                               !.calls = Append(calls, now),
                               !.slept = slept,
                               !.passed = LastN(Append(@, now + slept), rl.max_calls + 1)]
    /\ UNCHANGED <<svars, avars, evars, gm, cmp, gaps, oa, sc, ya, rt, pf, gs, cl, en, sf>>

\* time.time() advancing between calls
ClockAdvance ==
    /\ rl.pc = "ready"
    /\ rl.clock < MaxClock
    /\ rl' = [rl EXCEPT !.clock = @ + 1, !.slept = 0]
    /\ UNCHANGED <<svars, avars, evars, gm, cmp, gaps, oa, sc, ya, rt, pf, gs, cl, en, sf>>

LimiterInit ==
    /\ SchedulerIdle
    /\ AnalyzerIdle
    /\ EvaluatorIdle
    /\ rl \in [pc : {"ready"}, max_calls : 1..MaxCalls, period_seconds : {1},
               clock : {0}, calls : {<<>>}, slept : {0}, passed : {<<>>}]
    /\ gm = Idle
    /\ cmp = Idle
    /\ gaps = Idle
    /\ oa = Idle
    /\ sc = Idle
    /\ ya = Idle
    /\ rt = Idle
    /\ pf = Idle
    /\ gs = Idle
    /\ cl = Idle
    /\ en = Idle
    /\ sf = Idle

LimiterNext ==
    \/ wait_if_needed
    \/ ClockAdvance

LimiterSpec == LimiterInit /\ [][LimiterNext]_vars

\* C18: no more than max_calls calls return from wait_if_needed inside any
\* window of period_seconds, and the list of recorded call times never holds
\* more than max_calls entries.
C18_AtMostMaxCallsPerWindow ==
    rl.pc # "idle" =>
        /\ Len(rl.calls) <= rl.max_calls
        /\ \A i \in 1..Len(rl.passed) :
               Cardinality({ k \in i..Len(rl.passed) :
                               rl.passed[k] - rl.passed[i] < Tenths(rl.period_seconds) })
                   <= rl.max_calls

-----------------------------------------------------------------------------
(* player_fetcher.PlayerFetcher.get_all_available_players.  Every page      *)
(* request is one step; the platform answers with a page of 0 .. batch_size *)
(* players or the request raises.  Players are counted, not named.          *)

batch_size == 25

\* max_players ranges over 0 .. MaxRequested
MaxRequested == 60

\* lines 125-143: one pass of the loop body
FetchPage ==
    /\ pf.pc = "loop"
    /\ pf.start < pf.max_players
    /\ \/ \E batch \in 0..batch_size :
            pf' = IF batch = 0
                  THEN [pf EXCEPT !.pages = Append(@, batch), !.pc = "returned"]
                  ELSE [pf EXCEPT !.pages = Append(@, batch),
                                  !.all_players = @ + batch,
                                  !.start = @ + batch_size,
                                  !.pc = IF batch < batch_size THEN "returned" ELSE "loop"]
       \/ pf' = [pf EXCEPT !.pages = Append(@, -1), !.pc = "raised"]
    /\ UNCHANGED <<svars, avars, evars, gm, cmp, gaps, oa, sc, ya, rt, rl, gs, cl, en, sf>>

\* line 124 false: the loop ends and the list is returned
LoopEnds ==
    /\ pf.pc = "loop"
    /\ ~(pf.start < pf.max_players)
    /\ pf' = [pf EXCEPT !.pc = "returned"]
    /\ UNCHANGED <<svars, avars, evars, gm, cmp, gaps, oa, sc, ya, rt, rl, gs, cl, en, sf>>

FetcherInit ==
    /\ SchedulerIdle
    /\ AnalyzerIdle
    /\ EvaluatorIdle
    /\ pf \in [pc : {"loop"}, max_players : 0..MaxRequested, start : {0},
               all_players : {0}, pages : {<<>>}]
    /\ gm = Idle
    /\ cmp = Idle
    /\ gaps = Idle
    /\ oa = Idle
    /\ sc = Idle
    /\ ya = Idle
    /\ rt = Idle
    /\ rl = Idle
    /\ gs = Idle
    /\ cl = Idle
    /\ en = Idle
    /\ sf = Idle

FetcherNext ==
    \/ FetchPage
    \/ LoopEnds

FetcherSpec == FetcherInit /\ [][FetcherNext]_vars

\* C20: at most ceil(max_players / 25) page requests are made, no request
\* follows a page that is empty or shorter than 25, and no more than
\* max_players players are returned.
C20_BoundedPagesAndPlayers ==
    pf.pc # "idle" =>
        /\ Len(pf.pages) <= (pf.max_players + batch_size - 1) \div batch_size
        /\ \A k \in 1..(Len(pf.pages) - 1) : pf.pages[k] = batch_size
        /\ pf.pc = "returned" => pf.all_players <= pf.max_players

-----------------------------------------------------------------------------
(* OpponentAnalyzer._get_games_per_team as decorated: retry_on_failure      *)
(* outside, safe_api_call inside, and the body's own try/except.  The feed  *)
(* answers each attempt on its own.                                         *)

\* The schedule of a week: every NBA team in the feed plays `games` games
FeedAnswers ==
    { [kind |-> k, games |-> g] : k \in {"cached", "ok"}, g \in {3, 4} }
        \cup { [kind |-> k, games |-> 0] : k \in {"empty", "exception"} }

\* lines 225-285: the function body; its try/except answers an exception of
\* the fetch with an empty dict
schedule_body(answer) ==
    IF answer.kind \in {"cached", "ok"} THEN Value([empty |-> FALSE, games |-> answer.games])
    ELSE Value([empty |-> TRUE, games |-> 0])

\* util.safe_api_call: an exception of the wrapped call becomes a returned None
safe_api_call(result) ==
    IF result.raised THEN Value([empty |-> TRUE, games |-> 0]) ELSE result

\* util.retry_on_failure over the outcomes of successive invocations of func
RECURSIVE retry_from(_, _, _, _, _)
retry_from(func, max_retries, delay_seconds, attempt, sleeps) ==
    IF ~func[attempt + 1].raised
    THEN [raised |-> FALSE, value |-> func[attempt + 1].value,
          invocations |-> attempt + 1, sleeps |-> sleeps]
    ELSE IF attempt < max_retries - 1
    THEN retry_from(func, max_retries, delay_seconds, attempt + 1,
                    Append(sleeps, backoff(delay_seconds, attempt)))
    ELSE [raised |-> TRUE, value |-> func[attempt + 1].value,
          invocations |-> attempt + 1, sleeps |-> sleeps]

retry_on_failure(func, max_retries, delay_seconds) ==
    retry_from(func, max_retries, delay_seconds, 0, <<>>)

\* lines 209-211: @retry_on_failure(max_retries=2, delay_seconds=1.0) @safe_api_call
decorated_get_games_per_team(answers) ==
    retry_on_failure([k \in 1..2 |-> safe_api_call(schedule_body(answers[k]))], 2, 1)

\* opponent_analyzer.py 328-334: games / 3.5 as a fraction, 1.0 without schedule
\* or for a team the schedule does not list
game_multiplier(games_per_team, player_team) ==
    IF ~games_per_team.empty /\ player_team # "UNK"
    THEN [num |-> 2 * games_per_team.games, den |-> 7]
    ELSE [num |-> 1, den |-> 1]

\* analyze_matchup lines 79-96 with week dates given: the schedule lookup, then
\* the multiplier _get_team_stats applies to a player of player_team
CallGetGamesPerTeam ==
    /\ gs.pc = "input"
    /\ LET r == decorated_get_games_per_team(gs.answers)
       IN  gs' = [gs EXCEPT !.pc = "returned",
                            !.ret = [raised |-> r.raised, invocations |-> r.invocations,
                                     sleeps |-> r.sleeps,
                                     multiplier |-> IF r.raised THEN [num |-> 0, den |-> 1]
                                                    ELSE game_multiplier(r.value,
                                                                         gs.player_team)]]
    /\ UNCHANGED <<svars, avars, evars, gm, cmp, gaps, oa, sc, ya, rt, rl, pf, cl, en, sf>>

ScheduleInit ==
    /\ SchedulerIdle
    /\ AnalyzerIdle
    /\ EvaluatorIdle
    /\ gs \in [pc : {"input"}, answers : [1..2 -> FeedAnswers],
               player_team : {"PHX", "BOS", "UNK"}, ret : {Idle}]
    /\ gm = Idle
    /\ cmp = Idle
    /\ gaps = Idle
    /\ oa = Idle
    /\ sc = Idle
    /\ ya = Idle
    /\ rt = Idle
    /\ rl = Idle
    /\ pf = Idle
    /\ cl = Idle
    /\ en = Idle
    /\ sf = Idle

ScheduleNext == CallGetGamesPerTeam

ScheduleSpec == ScheduleInit /\ [][ScheduleNext]_vars

\* C21: a schedule lookup that fails with an exception is attempted a second
\* time after a 1-second backoff, and when both attempts failed the analysis
\* goes on with multiplier 1.0 instead of aborting.
C21_FailedLookupRetriedOnce ==
    (gs.pc = "returned" /\ gs.answers[1].kind = "exception")
        => /\ gs.ret.invocations = 2
           /\ gs.ret.sleeps = <<1>>
           /\ gs.answers[2].kind = "exception"
                  => /\ ~gs.ret.raised
                     /\ gs.ret.multiplier = [num |-> 1, den |-> 1]

-----------------------------------------------------------------------------
(* analyze_matchup, lines 103-106: the gaps of one analysis and their       *)
(* classification.                                                          *)

CallGapsAndClassify ==
    /\ cl.pc = "input"
    /\ LET category_gaps == _calculate_category_gaps(TeamStats(cl.my), TeamStats(cl.opp))
       IN  cl' = [cl EXCEPT !.pc = "returned",
                            !.category_gaps = category_gaps,
                            !.classification = _classify_categories(category_gaps)]
    /\ UNCHANGED <<svars, avars, evars, gm, cmp, gaps, oa, sc, ya, rt, rl, pf, gs, en, sf>>

ClassifyInit ==
    /\ SchedulerIdle
    /\ AnalyzerIdle
    /\ EvaluatorIdle
    /\ cl \in [pc : {"input"}, my : 0..MaxTeamValue, opp : 0..MaxTeamValue,
               category_gaps : {Idle}, classification : {Idle}]
    /\ gm = Idle
    /\ cmp = Idle
    /\ gaps = Idle
    /\ oa = Idle
    /\ sc = Idle
    /\ ya = Idle
    /\ rt = Idle
    /\ rl = Idle
    /\ pf = Idle
    /\ gs = Idle
    /\ en = Idle
    /\ sf = Idle

ClassifyNext == CallGapsAndClassify

ClassifySpec == ClassifyInit /\ [][ClassifyNext]_vars

\* The bucket the claim pairs with a status
BucketOf(status) ==
    CASE status = "DOMINATING" -> "dominating"
      [] status = "WINNING" -> "winnable"
      [] status = "COMPETITIVE" -> "competitive"
      [] status = "LOSING" -> "losing"
      [] OTHER -> "none"

\* C22: for every category the status of _calculate_category_gaps and the
\* bucket of _classify_categories agree: DOMINATING with dominating,
\* WINNING with winnable, COMPETITIVE with competitive, LOSING with losing.
C22_StatusAgreesWithBucket ==
    cl.pc = "returned"
        => \A cat \in Range(Categories) :
               cl.classification[cat] = BucketOf(cl.category_gaps[cat].status)

-----------------------------------------------------------------------------
(* One run of the orchestrator as far as the opponent analysis goes:        *)
(* fetch_live_roster, then the schedule step of fetch_live_matchup          *)
(* (ai_analyzer.py 659-682).  A roster player has the shape                 *)
(* RosterAnalyzer._clean_roster_player gives it: its statistics are under   *)
(* season_stats and it has no stats key.                                    *)

CanonicalPlayer(name, injured, season_stats) ==
    [name |-> name, injured |-> injured, stats |-> None, season_stats |-> season_stats]

\* _get_team_stats line 324: player.get('stats', {}), then stats.get(cat, 0)
AsReadByTeamStats(player) ==
    RosterPlayer(player.injured,
                 IF player.stats # None THEN The(player.stats) ELSE Numeric(0))

\* Today's rosters: "Ayton" alone or followed by "Booker"
SeasonValues == {0, 3}
TodayRosters ==
    { <<CanonicalPlayer("Ayton", i, v)>> : i \in BOOLEAN, v \in SeasonValues }
        \cup { <<CanonicalPlayer("Ayton", i, v), CanonicalPlayer("Booker", j, w)>> :
                 i \in BOOLEAN, v \in SeasonValues, j \in BOOLEAN, w \in SeasonValues }

RosterNames(roster) == { roster[i].name : i \in 1..Len(roster) }

\* fetch_live_roster lines 461-468: the pending drops are filtered out
RunFetchLiveRoster ==
    /\ en.pc = "start"
    /\ en' = [en EXCEPT !.pc = "roster",
                        !.my_roster = SelectSeq(en.today,
                                                LAMBDA p : p.name \notin en.already_dropped)]
    /\ UNCHANGED <<svars, avars, evars, gm, cmp, gaps, oa, sc, ya, rt, rl, pf, gs, cl, sf>>

\* fetch_live_matchup lines 659-682: get_my_roster again, analyze_matchup on
\* what it returned, games_per_team copied when the analysis has that key;
\* an exception of either leaves the matchup without schedule
RunScheduleStep ==
    /\ en.pc = "roster"
    /\ IF en.roster_answer # "ok"
       THEN en' = [en EXCEPT !.pc = "matchup"]
       ELSE LET current_roster == en.today
                schedule_analysis ==
                    analyze_matchup(Some([i \in 1..Len(current_roster) |->
                                             AsReadByTeamStats(current_roster[i])]),
                                    OppTeam, TRUE, en.resp, en.sched)
            IN  en' = [en EXCEPT !.pc = "matchup",
                                 !.current_roster = Some(current_roster),
                                 !.schedule_analysis = Some(schedule_analysis),
                                 !.games_per_team =
                                     /\ ~schedule_analysis.raised
                                     /\ "games_per_team" \in schedule_analysis.keys]
    /\ UNCHANGED <<svars, avars, evars, gm, cmp, gaps, oa, sc, ya, rt, rl, pf, gs, cl, sf>>

RunInit ==
    /\ SchedulerIdle
    /\ AnalyzerIdle
    /\ EvaluatorIdle
    /\ en \in [pc : {"start"}, today : TodayRosters,
               already_dropped : SUBSET {"Ayton", "Booker"},
               roster_answer : {"ok", "exception"},
               resp : RosterAnswers, sched : ScheduleAnswers,
               my_roster : {<<>>}, current_roster : {None}, schedule_analysis : {None},
               games_per_team : {FALSE}]
    /\ en.already_dropped \subseteq RosterNames(en.today)
    /\ gm = Idle
    /\ cmp = Idle
    /\ gaps = Idle
    /\ oa = Idle
    /\ sc = Idle
    /\ ya = Idle
    /\ rt = Idle
    /\ rl = Idle
    /\ pf = Idle
    /\ gs = Idle
    /\ cl = Idle
    /\ sf = Idle

RunNext ==
    \/ RunFetchLiveRoster
    \/ RunScheduleStep

RunSpec == RunInit /\ [][RunNext]_vars

\* The per-game values of the players that are not injured, summed
RECURSIVE SumSeason(_)
SumSeason(roster) ==
    IF roster = <<>> THEN 0
    ELSE (IF Head(roster).injured THEN 0 ELSE Head(roster).season_stats)
             + SumSeason(Tail(roster))

\* The analysis of the run returned projections
Projected ==
    /\ en.pc = "matchup"
    /\ en.schedule_analysis # None
    /\ The(en.schedule_analysis).my_projections # None

\* C23: my_projections is computed from the season_stats of the roster
\* players: a roster with non-zero season statistics never projects to zero,
\* and without a schedule each counting category is the sum of the
\* non-injured players' values.
C23_ProjectionFromSeasonStats ==
    Projected
        => LET pts == The(The(en.schedule_analysis).my_projections)["PTS"]
               expected == SumSeason(The(en.current_roster))
           IN  /\ expected > 0 => pts > 0
               /\ en.sched \in {"empty", "exception"} => pts = expected

\* C24: the roster handed to analyze_matchup excludes every pending drop of
\* the run.
C24_PendingDropsNotAnalyzed ==
    (en.pc = "matchup" /\ en.current_roster # None)
        => RosterNames(The(en.current_roster)) \cap en.already_dropped = {}

\* C25: when the opponent analysis obtained a schedule for the target week,
\* the matchup data carries it as games_per_team.
C25_ScheduleCarriedInMatchup ==
    (Projected /\ en.sched \in {"ok", "cached"}) => en.games_per_team

-----------------------------------------------------------------------------
(* StrategicAnalyzer._find_rare_players.  Per-game values are counted in    *)
(* thousandths.  A player dict holds its statistics under 'season_stats'    *)
(* (the shape the fetchers produce) or under 'stats'; a statistic a dict    *)
(* does not hold is None.                                                   *)

GUARDS == {"PG", "SG", "G"}
WINGS == {"SF", "F", "SF/SG"}
BIGS == {"PF", "C", "F/C", "PF/C"}

RareStats == {"3PTM", "FT%", "AST", "ST", "BLK", "REB", "TO"}

\* RARE_STATS_THRESHOLDS; None: the position has no threshold for the stat
RARE_STATS_THRESHOLDS(base_pos, stat) ==
    CASE base_pos = "C" ->
           (CASE stat = "3PTM" -> Some(1500) [] stat = "FT%" -> Some(800)
              [] stat = "AST" -> Some(3000) [] stat = "ST" -> Some(1200) [] OTHER -> None)
      [] base_pos = "PF" ->
           (CASE stat = "3PTM" -> Some(2000) [] stat = "FT%" -> Some(820)
              [] stat = "AST" -> Some(3500) [] stat = "BLK" -> Some(1500)
              [] stat = "ST" -> Some(1300) [] OTHER -> None)
      [] base_pos = "PG" ->
           (CASE stat = "BLK" -> Some(500) [] stat = "REB" -> Some(6000)
              [] stat = "3PTM" -> Some(3000) [] stat = "TO" -> Some(1500) [] OTHER -> None)
      [] base_pos = "SG" ->
           (CASE stat = "BLK" -> Some(700) [] stat = "REB" -> Some(5000)
              [] stat = "AST" -> Some(6000) [] stat = "3PTM" -> Some(3000) [] OTHER -> None)
      [] base_pos = "SF" ->
           (CASE stat = "BLK" -> Some(1000) [] stat = "AST" -> Some(5000)
              [] stat = "3PTM" -> Some(2500) [] stat = "ST" -> Some(1500) [] OTHER -> None)
      [] OTHER -> None

\* lines 222-229: the base position of a position, None for any other
base_position(position) ==
    IF position \in GUARDS THEN Some(IF position = "PG" THEN "PG" ELSE "SG")
    ELSE IF position \in WINGS THEN Some("SF")
    ELSE IF position \in BIGS THEN Some(IF position = "C" THEN "C" ELSE "PF")
    ELSE None

\* lines 236-251: the thresholds of base_pos that the stats dict meets
rare_stats(base_pos, stats) ==
    { stat \in RareStats :
        /\ RARE_STATS_THRESHOLDS(base_pos, stat) # None
        /\ stats[stat] # None
        /\ IF stat = "TO"
           THEN The(stats[stat]) <= The(RARE_STATS_THRESHOLDS(base_pos, stat))
           ELSE The(stats[stat]) >= The(RARE_STATS_THRESHOLDS(base_pos, stat)) }

NoStats == [stat \in RareStats |-> None]

\* lines 217-263: the loop; a player without position group, without a
\* non-empty 'stats' dict or without a threshold met is passed over
RECURSIVE RareLoop(_)
RareLoop(plist) ==
    IF plist = <<>> THEN <<>>
    ELSE LET player == Head(plist)
             base_pos == base_position(player.primary_position)
             stats == IF player.stats # None THEN The(player.stats) ELSE NoStats
         IN  IF base_pos = None \/ stats = NoStats \/ rare_stats(The(base_pos), stats) = {}
             THEN RareLoop(Tail(plist))
             ELSE <<[name |-> player.name, position |-> player.primary_position,
                     base_position |-> The(base_pos),
                     rare_count |-> Cardinality(rare_stats(The(base_pos), stats))]>>
                      \o RareLoop(Tail(plist))

\* line 265: list.sort by rare_count, reverse=True (stable)
RECURSIVE SortByRareCount(_)
SortByRareCount(s) ==
    IF s = <<>> THEN <<>>
    ELSE LET rest == SortByRareCount(Tail(s))
             ahead == SelectSeq(rest, LAMBDA r : r.rare_count > Head(s).rare_count)
             behind == SelectSeq(rest, LAMBDA r : r.rare_count <= Head(s).rare_count)
         IN  ahead \o <<Head(s)>> \o behind

_find_rare_players(plist) == SortByRareCount(RareLoop(plist))

\* Lists of up to MaxScarcityList players
MaxScarcityList == 2

\* Stats dicts with values on both sides of the PG and C thresholds
StatsDicts3 ==
    { [stat \in RareStats |->
          IF stat = "3PTM" THEN tpm ELSE IF stat = "TO" THEN to
          ELSE IF stat = "AST" THEN ast ELSE None] :
        tpm \in {None, Some(1400), Some(3000)}, to \in {None, Some(1500), Some(1600)},
        ast \in {None, Some(3000)} }

\* shape "season_stats": the dict is under 'season_stats' and there is no
\* 'stats' key; shape "stats": the dict is under 'stats'
ScarcityPlayers ==
    { [name |-> "", primary_position |-> pos,
       stats |-> IF shape = "stats" THEN Some(d) ELSE None,
       season_stats |-> IF shape = "stats" THEN NoStats ELSE d] :
        pos \in {"PG", "C", "Util"}, d \in StatsDicts3, shape \in {"stats", "season_stats"} }

\* The players of a list are named by their place in it
Named(plist) == [i \in 1..Len(plist) |-> [plist[i] EXCEPT !.name = IF i = 1 THEN "first" ELSE "second"]]

CallFindRarePlayers ==
    /\ sf.pc = "input"
    /\ sf' = [sf EXCEPT !.pc = "returned", !.result = _find_rare_players(sf.plist)]
    /\ UNCHANGED <<svars, avars, evars, gm, cmp, gaps, oa, sc, ya, rt, rl, pf, gs, cl, en>>

ScarcityInit ==
    /\ SchedulerIdle
    /\ AnalyzerIdle
    /\ EvaluatorIdle
    /\ sf \in [pc : {"input"},
               plist : { Named(l) : l \in UNION {[1..n -> ScarcityPlayers] :
                                                   n \in 0..MaxScarcityList} },
               result : {<<>>}]
    /\ gm = Idle
    /\ cmp = Idle
    /\ gaps = Idle
    /\ oa = Idle
    /\ sc = Idle
    /\ ya = Idle
    /\ rt = Idle
    /\ rl = Idle
    /\ pf = Idle
    /\ gs = Idle
    /\ cl = Idle
    /\ en = Idle

ScarcityNext == CallFindRarePlayers

ScarcitySpec == ScarcityInit /\ [][ScarcityNext]_vars

\* C26: a player whose statistics are under season_stats is flagged as rare
\* whenever a threshold of its position group is met, with rare_count the
\* number of thresholds met, and the rare players are in non-increasing order
\* of rare_count.
C26_RareWheneverThresholdMet ==
    sf.pc = "returned"
        => /\ \A i \in 1..Len(sf.plist) :
                LET player == sf.plist[i]
                    base_pos == base_position(player.primary_position)
                IN  (player.stats = None /\ base_pos # None)
                        => LET met == rare_stats(The(base_pos), player.season_stats)
                           IN  met # {} <=>
                                   \E k \in 1..Len(sf.result) :
                                       /\ sf.result[k].name = player.name
                                       /\ sf.result[k].rare_count = Cardinality(met)
           /\ \A k \in 1..(Len(sf.result) - 1) :
                  sf.result[k].rare_count >= sf.result[k + 1].rare_count

-----------------------------------------------------------------------------
(* MatchupScheduler.get_current_week: what a call leaves in the cache, and   *)
(* the week the team matchups tier returns.                                 *)

\* C27: the week a get_current_week call resolved, through whichever tier,
\* is stored under current_week_<team_key>, so that a later call answers
\* from the cache without a request.
C27_ResolvedWeekIsCached ==
    Called("get_current_week")
        => /\ weekCache = Some(ret.week)
           /\ call.cache0 # None => ret.reqs = <<>> /\ ret.week = The(call.cache0)

\* C28 as stated: the team matchups tier adds one to the matchup's week
\* exactly when the status is postevent, and returns the week unchanged for
\* any other status or when the matchup carries no status.
C28_OnlyPosteventAdvances ==
    (Called("get_current_week") /\ ret.src = "matchups")
        => ret.week = IF call.net.matchups.status = "postevent"
                      THEN call.net.matchups.week + 1
                      ELSE call.net.matchups.week

\* C28: the team matchups tier adds one to the matchup's week exactly when
\* the status is postevent or the matchup carries no status, and returns the
\* week unchanged for any other status.
C28_PosteventOrNoStatusAdvances ==
    (Called("get_current_week") /\ ret.src = "matchups")
        => ret.week = IF call.net.matchups.status \in {"postevent", "absent"}
                      THEN call.net.matchups.week + 1
                      ELSE call.net.matchups.week

\* The team matchups tier answered with a matchup that carries no status
C28_MatchupWithoutStatus ==
    /\ Called("get_current_week")
    /\ ret.src = "matchups"
    /\ call.net.matchups.status = "absent"
    /\ ret.week = call.net.matchups.week + 1
    /\ weekCache = Some(ret.week)


-----------------------------------------------------------------------------
(* get_matchup_for_week and the league scoreboard *)

\* C29: get_matchup_for_week consults the league scoreboard whenever the team
\* matchups request fails or yields no matchup, a request that raises
\* included; it returns nothing only if the scoreboard was consulted and
\* yielded no matchup; when the scoreboard has matchups but none holds
\* team_key it returns the scoreboard's first matchup; and it never raises.
C29_ScoreboardAfterAnyTeamFailure ==
    Called("get_matchup_for_week")
        => /\ ~ ret.raised
           /\ call.fetch.cur.team # "matchup" => Consulted("league_scoreboard")
           /\ ret.matchup = None
                 => /\ Consulted("league_scoreboard")
                    /\ call.fetch.cur.board \notin {"mine", "others"}
           /\ (call.fetch.cur.team # "matchup" /\ call.fetch.cur.board = "others")
                 => ret.matchup = Some(RawMatchup(call.week, <<OppTeam, OtherTeam>>))


-----------------------------------------------------------------------------
(* The look-ahead overlay of get_optimal_matchup *)

\* C30: in every result of get_optimal_matchup the week is current_week or
\* current_week + 1; is_lookahead is true only if the week is
\* current_week + 1 and the instant is a Sunday at or after the cutoff hour;
\* is_lookahead false implies the week is current_week; at most two matchup
\* fetches are made, the second only after the fetch of the look-ahead week
\* returned nothing.
C30_LookAheadOverlay ==
    Called("get_optimal_matchup")
        => /\ ret.week \in {ret.current_week, ret.current_week + 1}
           /\ ret.is_lookahead
                 => /\ ret.week = ret.current_week + 1
                    /\ LookAheadAt(InstantOf(call.date, call.t), call.cutoff)
           /\ ~ ret.is_lookahead => ret.week = ret.current_week
           /\ Len(ret.fetched) <= 2
           /\ Len(ret.fetched) = 2
                 => /\ ret.fetched[1] = ret.current_week + 1
                    /\ get_matchup_for_week(MyTeam, ret.fetched[1],
                                            call.fetch.next).matchup = None

=============================================================================
